---- MODULE Spec2Model ----
(***************************************************************************)
(* The SAML issuer of lemonldap-ng.js: the Express router of               *)
(* packages/issuer-saml (createSAMLIssuerRouter) driving the SAMLIssuer    *)
(* engine and its SSO session correlator.                                  *)
(*                                                                         *)
(* The router is translated from its source.  The SAMLIssuer class         *)
(* (./issuer) is imported by the router but its file is not part of the    *)
(* source tree at hand; its operations are modelled from the design        *)
(* document (sections 3, 4.3, 4.4 and 7).                                  *)
(*                                                                         *)
(* Every route handler is an async function: it runs without interruption  *)
(* up to its next await, so one action is the resolution of one awaited    *)
(* call followed by the synchronous code up to the next await (or to the   *)
(* response).  Several exchanges are in flight at once and interleave at   *)
(* these points only.                                                      *)
(*                                                                         *)
(* The second-factor packages are modelled beside it, each under its own   *)
(* specification: the InMemoryTokenManager of 2fa-common (TokenSpec) and   *)
(* the TwoFactorManager of the portal (TwoFactorSpec).                     *)
(***************************************************************************)
EXTENDS Integers, Sequences, FiniteSets, TLC

\* ------------------------------------------------------------------ bounds
NumSPs == 2
NumSessions == 1
NumNameIds == 1
MaxExchanges == 2
MaxTokens == 2        \* tokens created by one InMemoryTokenManager
NumValues == 2        \* values of the data stored in a token
MaxTicks == 3         \* steps of the clock
MaxPending == 2       \* pending sessions created by one TwoFactorManager
MaxDevices == 2       \* devices in one _2fDevices list
MaxLoaders == 2       \* loadLasso() calls that can be in flight together
NumEpochs == 2        \* registration times of 2FA devices
MaxBytes == 5         \* length of a buffer given to base32Encode
MaxRequests == 2      \* portal requests in flight together
MaxLogins == 1        \* logins of the portal that are sent to the second factor
MaxNow == 4           \* seconds on the clock of the TOTP module
MaxCdaSessions == 1   \* CDA sessions that the session accessor accepts

\* ------------------------------------------------------------- value sets
\* null / undefined where the code has an optional session id or provider
NoSession == 0
NoSP == 0

KnownSPs == 1..NumSPs                \* entity IDs in the trust configuration
UnknownSP == NumSPs + 1              \* an entity ID that is not configured
AllSPs == KnownSPs \cup {UnknownSP}
Sessions == 1..NumSessions
NameIds == 1..NumNameIds
Exchanges == 1..MaxExchanges

\* the body of a well-formed SOAP LogoutRequest envelope
SoapLogoutEnvelope == "<soap:Envelope>"

\* req.body as the body parsers leave it: a string when express.text() parsed
\* the payload, undefined when no parser accepted the request
RequestBodies ==
  { [type |-> "string", text |-> ""],
    [type |-> "string", text |-> SoapLogoutEnvelope],
    [type |-> "string", text |-> "not xml"],
    [type |-> "undefined", text |-> ""] }

\* protocol messages as the toolkit sees them: one correctly signed by each
\* SP, configured or not, and one whose signature does not verify
Messages ==
  {[sp |-> sp, valid |-> TRUE] : sp \in AllSPs}
    \cup {[sp |-> 1, valid |-> FALSE]}

\* what config.getSessionId?.(req) does: a session id, null, or it throws
Lookups ==
  {[raised |-> FALSE, id |-> s] : s \in Sessions \cup {NoSession}}
    \cup {[raised |-> TRUE, id |-> NoSession]}

\* what config.getSessionData?.(id) does: a record, null, or it rejects
SessionData == {"record", "null", "rejected"}

\* send instructions returned by the issuer ({method: POST, body} or {url})
Instructions == {"AutoPostForm", "Redirect"}

\* Server Manager: no active handle, and the handle of the configuration
NoHandle == 0
Configured == 1

\* a NameID the SP has not been given before (re-authentication)
FreshNameId == NumNameIds + 1

\* no call has been made on the engine itself
NoCall == [op |-> "none"]

\* ------------------------------------------------ one-time tokens: values
\* private defaultTimeout = 120, in seconds; the clock counts seconds
defaultTimeout == 120

TokenIds == 1..MaxTokens
Values == 1..NumValues
Null == 0                            \* null, where the code returns data | null
Undefined == -1                      \* an optional argument that is left out
Timeouts == {0, 1, Undefined}
Delays == {1, defaultTimeout}

\* Map.get(id) === undefined
NoEntry == [data |-> Null, expires |-> 0, set |-> FALSE]

\* --------------------------------------------- TwoFactorManager: values
\* private pendingTimeout = 300, in seconds, when conf.sfLoginTimeout is unset
pendingTimeout == 300

\* the strings a caller can pass as token: the ones that
\* crypto.randomBytes(32).toString("hex") has returned, a string that is no
\* property of any object ("non-existent-token"), and a property name that
\* every plain object inherits from Object.prototype ("constructor")
PendingTokens == 1..MaxPending
NonExistentToken == 0
ConstructorKey == MaxPending + 1
PrototypeKeys == {ConstructorKey}
TokenArgs == PendingTokens \cup {NonExistentToken} \cup PrototypeKeys

PendingDelays == {1, pendingTimeout}

\* this.pendingStore[token] is undefined
NoPending == [kind |-> "undefined", token |-> Undefined, timestamp |-> Undefined]
\* return null
NullPending == [kind |-> "null", token |-> Undefined, timestamp |-> Undefined]
\* a TwoFactorPendingState written by createPendingSession
Pending(token, time) == [kind |-> "own", token |-> token, timestamp |-> time]
\* Object.prototype[key]: a truthy value that has no timestamp property
Inherited(key) == [kind |-> "inherited", token |-> key, timestamp |-> Undefined]

\* the type of the modules that init() can load (2fa-totp)
ModuleTypes == {"TOTP"}
DeviceTypes == {"TOTP", "U2F"}

\* the values JSON.parse can return, or a session can hold as they are
DeviceLists ==
  UNION {[1..n -> DeviceTypes] : n \in 0..MaxDevices}
JsonValues ==
  {[type |-> "array", items |-> l] : l \in DeviceLists}
    \cup {[type |-> "object", items |-> <<>>], [type |-> "null", items |-> <<>>]}

\* session._2fDevices: absent, "", a string that is no JSON, a string that
\* is the JSON of a value, or an array held as it is
DevicesValues ==
  {[kind |-> k, value |-> [type |-> "null", items |-> <<>>]] :
      k \in {"undefined", "emptyString", "invalidJSON"}}
    \cup {[kind |-> "json", value |-> v] : v \in JsonValues}
    \cup {[kind |-> "array", value |-> v] :
            v \in {w \in JsonValues : w.type = "array"}}

\* ------------------------------------------------ PluginManager: values
PE_OK == 0
PE_ERROR == 24

\* the hooks of a plugin, in the order registerHooks walks them
HookNames == <<"beforeAuth", "endAuth">>
Hooks == {HookNames[i] : i \in 1..Len(HookNames)}

\* a PluginRegistration: package name and optional priority
Registration(name, priority) == [packageName |-> name, priority |-> priority]

\* the registry as the module defines it, cut down to its last entry,
\* impersonation; the entries before it carry no priority, as the one that
\* registerPlugin adds here can
DefaultRegistry == << Registration("impersonation", 1000) >>

\* what registerPlugin can add, and what conf.customPlugins can name
RegisteredPackage == "plugin-r"
RegisteredPriorities == {Undefined, 2000}
CustomPackage == "plugin-c"
CustomPlugins == {<<>>, <<CustomPackage>>}
Packages == {"impersonation", RegisteredPackage, CustomPackage}

\* a PluginResult; a hook can also throw
Result(code, stop) == [code |-> code, stop |-> stop, thrown |-> FALSE]
Thrown == [code |-> PE_ERROR, stop |-> FALSE, thrown |-> TRUE]
HookOutcomes ==
  {Result(PE_OK, FALSE), Result(PE_OK, TRUE), Result(PE_ERROR, FALSE),
   Result(PE_ERROR, TRUE), Thrown}

\* a package that is not loaded
NotLoaded == [hooks |-> {}, close |-> FALSE, loaded |-> FALSE]

NoHook == [pc |-> "idle"]

\* ------------------------------------------------- lasso-loader: values
Loaders == 1..MaxLoaders
\* what import("lasso.js") and require("lasso.js") come to in this process
LoadOutcomes == {"ok", "fails"}

\* ------------------------------------------------ device registry: values
Epochs == 1..NumEpochs
\* a TwoFactorDevice
Device(type, epoch) == [type |-> type, epoch |-> epoch]
Devices == {Device(t, e) : t \in DeviceTypes, e \in Epochs}
StoredLists == UNION {[1..n -> Devices] : n \in 0..MaxDevices}

\* session._2fDevices as the registry finds it: absent, a string that is no
\* JSON, the JSON of an object, or the JSON of an array of devices
SessionDevices ==
  {[kind |-> k, items |-> <<>>] : k \in {"undefined", "invalidJSON", "object"}}
    \cup {[kind |-> "array", items |-> l] : l \in StoredLists}

\* ----------------------------------------------------------- base32: values
\* const BASE32_ALPHABET = "ABCDEFGHIJKLMNOPQRSTUVWXYZ234567", by character
BASE32_ALPHABET ==
  << "A", "B", "C", "D", "E", "F", "G", "H", "I", "J", "K", "L", "M", "N", "O",
     "P", "Q", "R", "S", "T", "U", "V", "W", "X", "Y", "Z", "2", "3", "4", "5",
     "6", "7" >>

\* the bytes drawn: 0x00, 0x5a, 0xa5, 0xff
ByteValues == {0, 90, 165, 255}

\* a 32-bit integer of JavaScript, by its bits: bit 0 is the lowest
BitIndex == 0..31
Zero32 == [i \in BitIndex |-> 0]

NotDecoded == [bytes |-> <<>>, error |-> "none", done |-> FALSE]

\* ------------------------------------------------- portal 2FA: values
Requests == 1..MaxRequests

\* the prefix of the module of a type: TOTP2F has type "TOTP", prefix "totp",
\* and is stored in TwoFactorManager.modules under "totp"
PrefixOf(type) == IF type = "TOTP" THEN "totp" ELSE "none"

\* the :type of /2fa/:type as a client can send it
TypeParams == {"totp", "u2f"}

\* the tokens that POST / hands out
LoginTokens == 1..MaxLogins

\* the sfToken of a request: a token handed out, one never handed out, a key
\* of Object.prototype, or none at all
NoToken == -1
SubmittedTokens ==
  LoginTokens \cup {NonExistentToken} \cup PrototypeKeys \cup {NoToken}

\* the steps of the clock between two steps of the portal
PortalDelays == {pendingTimeout}

\* userData.attributes._2fDevices of the user who logs in
LoginDevices ==
  { [kind |-> "undefined", value |-> [type |-> "null", items |-> <<>>]],
    [kind |-> "json", value |-> [type |-> "array", items |-> <<"TOTP">>]],
    [kind |-> "json", value |-> [type |-> "array", items |-> <<"U2F">>]],
    [kind |-> "json", value |-> [type |-> "object", items |-> <<>>]] }

\* the fields of a TwoFactorPendingState that the routes read besides the
\* token and the timestamp; a value inherited from Object.prototype has none
PendingInfo(devices, availableModules) ==
  [devices |-> devices, availableModules |-> availableModules, set |-> TRUE]
NoInfo ==
  [devices |-> [kind |-> "undefined", value |-> [type |-> "null", items |-> <<>>]],
   availableModules |-> <<>>, set |-> FALSE]

\* req.body.code: absent, or what verifyCode rejects or accepts
Codes == {"none", "wrong", "right"}

\* a request slot that is free
NoRequest ==
  [route |-> "none", pc |-> "done", token |-> NoToken,
   live |-> FALSE, listed |-> FALSE, ran |-> "none",
   required |-> "false", valid |-> FALSE, verified |-> "none",
   created |-> FALSE, cookie |-> FALSE,
   status |-> "none", location |-> NoToken]

\* --------------------------------------------------------- TOTP: values
\* the _secret of a device, "none" when the device has none
Secrets == {"none", "s1", "s2"}

\* a TwoFactorDevice with its _secret
SecretDevice(type, epoch, secret) ==
  [type |-> type, epoch |-> epoch, secret |-> secret]
SecretDevices ==
  {SecretDevice(t, e, k) : t \in DeviceTypes, e \in Epochs, k \in Secrets}

\* sessionInfo._2fDevices as TOTP2F finds it
TotpSessions ==
  {[kind |-> k, items |-> <<>>] : k \in {"undefined", "invalidJSON", "object"}}
    \cup {[kind |-> "array", items |-> l] :
            l \in UNION {[1..n -> SecretDevices] : n \in 0..MaxDevices}}

\* req.body.code: absent, the code that the secret s1 or s2 yields now, or
\* a code that no secret yields
TotpCodes == {"none", "s1", "s2", "bad"}

\* totpConfig.ttl
Ttls == {Undefined, 0, 1}

NoDevice == SecretDevice("none", 0, "none")

\* ------------------------------------------------ TOTP registration: values
\* req.body.code: absent (0), or the code that the secret 1..NumValues yields
\* now, which is a wrong code for every other secret
NoCode == 0
RegCodes == {NoCode} \cup Values

\* the steps of the clock between two steps of the registration
RegDelays == {defaultTimeout + 1}

\* session._2fDevices when the registration starts
RegSessions ==
  { [kind |-> "undefined", items |-> <<>>],
    [kind |-> "invalidJSON", items |-> <<>>],
    [kind |-> "array", items |-> <<>>],
    [kind |-> "array", items |-> <<SecretDevice("U2F", 0, "none")>>] }

\* no call of verifyRegistration in the slot
NoRegCall == [pc |-> "idle", token |-> 0, code |-> NoCode, tokenData |-> Null]

\* ---------------------------------------------------- CDA plugin: values
\* a URL by what URIRE /^(https?):\/\/([^/]+)(\/.*)?$/i finds in it: the scheme
\* as written ("none" when the string does not match, the empty string
\* included), the host, and whether the string includes "?"
Url(scheme, host, query) == [scheme |-> scheme, host |-> host, query |-> query]
Urls ==
  { Url("http", "external.com", FALSE), Url("http", "external.com", TRUE),
    Url("https", "external.com", FALSE), Url("HTTPS", "external.com", FALSE),
    Url("http", "example.com", FALSE), Url("http", "app.example.com", FALSE),
    Url("http", "auth.example.com", FALSE), Url("none", "external.com", FALSE) }

\* req.llngUrldc or req.body.url that is not set
NoUrl == Url("none", "", FALSE)

\* req.body.url of the requests drawn
BodyUrls == {NoUrl, Url("http", "external.com", FALSE)}

\* conf.domain, conf.portal and conf.securedCookie
Domains == {"", ".example.com"}
Portals == {"http://auth.example.com", "/"}
SecuredCookies == 1..3

\* the ids of the main session and of its _httpSession, "" when there is none
\* req.llngSessionId and req.llngSession of the requests drawn
CdaRequest(llngSessionId, session_id, httpSession) ==
  [llngSessionId |-> llngSessionId, session_id |-> session_id,
   httpSession |-> httpSession]
CdaRequests ==
  { CdaRequest("", "", ""), CdaRequest("main", "", ""),
    CdaRequest("", "main", ""), CdaRequest("", "main", "httpsession"),
    CdaRequest("main", "main", "httpsession") }

\* generateCDASessionId()
CdaIds == 1..MaxCdaSessions
NoCda == 0

\* how sessionAcc.update(...) ends: it resolves to true or false, or rejects
UpdateOutcomes == {"true", "false", "throws"}

\* req.llngUrldc: a URL, with the CDA token appended after a separator or not
Urldc(url, separator, cda) == [url |-> url, separator |-> separator, cda |-> cda]

\* nothing handed to sessionAcc.update
NoCdaInfos == [cookie_value |-> "", cookie_name |-> "", id |-> NoCda]

VARIABLES
  requireAuth,       \* config.requireAuth is set
  providerSessions,  \* Correlator: [Sessions -> Seq([sp, nameId])]
  walk,              \* Correlator: [Sessions -> LogoutWalkState]
  exch,              \* the exchanges in flight: [Exchanges -> exchange record]
  finished,          \* the exchange that has just been answered, Idle if none
  built,             \* history: SPs a Response was built for and not removed since
  hist,              \* history of the latest walk of each session
  handle,            \* Server Manager: the active ServerHandle, NoHandle if none
  outcome,           \* the latest call made on the engine itself, with its result
  now,               \* Date.now(), in seconds
  tokens,            \* InMemoryTokenManager.tokens: [TokenIds -> entry]
  issued,            \* history: how each token id was created and used so far
  tokRet,            \* the latest call on the token manager, with its result
  clock,             \* Date.now(), in seconds, for the TwoFactorManager
  modules,           \* TwoFactorManager.modules: the types of the loaded modules
  pendingStore,      \* TwoFactorManager.pendingStore: its own properties
  timers,            \* the setTimeout callbacks that have not run yet
  made,              \* history: how each pending token was created and deleted
  sfRet,             \* the latest call on the TwoFactorManager, with its result
  pluginRegistry,    \* registry.ts pluginRegistry: sequence of registrations
  phase,             \* where the PluginManager is between constructor and close()
  queue,             \* init(): packages still to load; close(): plugins still to close
  plugins,           \* PluginManager.plugins, in insertion order
  loaded,            \* per package: the plugin object loadPlugin registered
  hookRegistry,      \* PluginManager.hookRegistry: [Hooks -> sequence of plugins]
  hookRun,           \* the executeHook call in progress or just returned
  closeLog,          \* the plugins whose close() was called by close(), in order
  lassoModule,       \* lasso-loader.ts lassoModule: "null" or the module
  loadError,         \* lasso-loader.ts loadError: "null" or the Error
  importer,          \* what import() and require() of lasso.js come to, once tried
  loading,           \* per loadLasso() call: where it is, what it saw when it began
  lassoRet,          \* the latest call of the loader that returned or threw
  session2f,         \* session._2fDevices of the session the registry works on
  devRet,            \* the latest call on the device registry, with its result
  buffer,            \* the Buffer handed to base32Encode
  encoded,           \* what base32Encode returned for it, by character
  decoded,           \* what base32Decode returned for encoded, or NotDecoded
  req,               \* per request slot: the portal request in flight there
  answered,          \* the portal request answered last
  pendingInfo,       \* per pending token: the rest of its TwoFactorPendingState
  sessionsOf,        \* per submitted token: sessions created by POST /2fa/:type
  totpSession,       \* sessionInfo._2fDevices that TOTP2F works on
  totpTtl,           \* totpConfig.ttl
  totpNow,           \* Math.floor(Date.now() / 1000)
  totpRet,           \* what the last call of TOTP2F did
  regCall,           \* per slot: the call of verifyRegistration in flight
  regSession,        \* session._2fDevices of the user who registers
  regRet,            \* what the call of TOTPRegister that returned last did
  cdaConf,           \* cookieName, securedCookie, domain, portal of the CDA plugin
  cdaStore,          \* the CDA sessions that the session accessor has stored
  cdaRet             \* what the last call of changeUrldc did

routerVars == <<requireAuth, providerSessions, walk, exch, finished,
                built, hist>>
serverVars == <<handle, outcome>>

tokenVars == <<now, tokens, issued, tokRet>>

twoFactorVars == <<clock, modules, pendingStore, timers, made, sfRet>>

pluginVars ==
  <<pluginRegistry, phase, queue, plugins, loaded, hookRegistry, hookRun,
    closeLog>>

lassoVars == <<lassoModule, loadError, importer, loading, lassoRet>>

deviceVars ==
  <<session2f, devRet>>

base32Vars ==
  <<buffer, encoded, decoded>>

portalVars ==
  <<req, answered, pendingInfo, sessionsOf>>

totpVars ==
  <<totpSession, totpTtl, totpNow, totpRet>>

registerVars ==
  <<regCall, regSession, regRet>>

cdaVars ==
  <<cdaConf, cdaStore, cdaRet>>

engineVars == <<routerVars, serverVars>>
notEngineVars == <<tokenVars, twoFactorVars, pluginVars, lassoVars, deviceVars, base32Vars, portalVars, totpVars, registerVars, cdaVars>>

\* what the router and the Correlator never touch
notRouterVars == <<serverVars, notEngineVars>>

notTokenVars == <<engineVars, twoFactorVars, pluginVars, lassoVars, deviceVars, base32Vars, portalVars, totpVars, registerVars, cdaVars>>
notTwoFactorVars == <<engineVars, tokenVars, pluginVars, lassoVars, deviceVars, base32Vars, portalVars, totpVars, registerVars, cdaVars>>
notPluginVars == <<engineVars, tokenVars, twoFactorVars, lassoVars, deviceVars, base32Vars, portalVars, totpVars, registerVars, cdaVars>>
notLassoVars == <<engineVars, tokenVars, twoFactorVars, pluginVars, deviceVars, base32Vars, portalVars, totpVars, registerVars, cdaVars>>

notDeviceVars ==
  <<engineVars, tokenVars, twoFactorVars, pluginVars, lassoVars, base32Vars,
    portalVars, totpVars, registerVars, cdaVars>>

notBase32Vars ==
  <<engineVars, tokenVars, twoFactorVars, pluginVars, lassoVars, deviceVars,
    portalVars, totpVars, registerVars, cdaVars>>

notLoginVars ==
  <<engineVars, tokenVars, pluginVars, lassoVars, deviceVars, base32Vars,
    totpVars, registerVars, cdaVars>>

notPortalVars ==
  <<engineVars, tokenVars, twoFactorVars, pluginVars, lassoVars, deviceVars,
    base32Vars, totpVars, registerVars, cdaVars>>

notTotpVars ==
  <<engineVars, tokenVars, twoFactorVars, pluginVars, lassoVars, deviceVars,
    base32Vars, portalVars, registerVars, cdaVars>>

notRegVars ==
  <<engineVars, twoFactorVars, pluginVars, lassoVars, deviceVars, base32Vars,
    portalVars, totpVars, cdaVars>>

notRegisterVars ==
  <<engineVars, tokenVars, twoFactorVars, pluginVars, lassoVars, deviceVars,
    base32Vars, portalVars, totpVars, cdaVars>>

notCdaVars ==
  <<engineVars, tokenVars, twoFactorVars, pluginVars, lassoVars, deviceVars,
    base32Vars, portalVars, totpVars, registerVars>>

vars ==
  <<routerVars, serverVars, tokenVars, twoFactorVars, pluginVars, lassoVars,
    deviceVars, base32Vars, portalVars, totpVars, registerVars, cdaVars>>

\* ------------------------------------------------------------ Correlator
NoWalk == [active |-> FALSE, queue |-> <<>>, origin |-> NoSP]

SPsOf(ps) == [i \in 1..Len(ps) |-> ps[i].sp]

HasProvider(ps, sp) == \E i \in 1..Len(ps) : ps[i].sp = sp

\* mutant: every call appends
recordProviderSession_Append(ps, sp, nameId) ==
  Append(ps, [sp |-> sp, nameId |-> nameId])

\* mutant: the entry recorded first is kept as it is
recordProviderSession_KeepFirst(ps, sp, nameId) ==
  IF HasProvider(ps, sp) THEN ps
  ELSE Append(ps, [sp |-> sp, nameId |-> nameId])

\* idempotent upsert keyed by the SP entity ID
recordProviderSession(ps, sp, nameId) ==
  IF HasProvider(ps, sp)
  THEN [i \in 1..Len(ps) |->
          IF ps[i].sp = sp THEN [sp |-> sp, nameId |-> nameId] ELSE ps[i]]
  ELSE Append(ps, [sp |-> sp, nameId |-> nameId])

\* the ProviderSession of sp is removed, the others keep their order
completeProvider(ps, sp) == SelectSeq(ps, LAMBDA p : p.sp # sp)

\* mutant: the snapshot is taken newest first
startLogoutWalk_Reversed(ps, origin) ==
  [active |-> TRUE,
   queue |-> SelectSeq([i \in 1..Len(ps) |-> ps[Len(ps) + 1 - i]],
                       LAMBDA p : p.sp # origin),
   origin |-> origin]

\* mutant: the snapshot is taken of every ProviderSession
startLogoutWalk_WithOrigin(ps, origin) ==
  [active |-> TRUE, queue |-> ps, origin |-> origin]

\* snapshot of the session's ProviderSessions, originating SP excluded
startLogoutWalk(ps, origin) ==
  [active |-> TRUE,
   queue |-> SelectSeq(ps, LAMBDA p : p.sp # origin),
   origin |-> origin]

isWalkExhausted(w) == w.queue = <<>>

\* mutant: the head is returned but stays queued
nextUnvisited_Peek(w) ==
  [provider |-> Head(w.queue), walk |-> w]

\* pops the head of the queue: [provider, walk after the pop]
nextUnvisited(w) ==
  [provider |-> Head(w.queue), walk |-> [w EXCEPT !.queue = Tail(@)]]

\* ---------------------------------------------------------- Server Manager
\* configure(samlConfig): the handle c of the configuration, or a failure that
\* leaves the Server Manager as it was
configure(h, c, valid) == IF valid THEN c ELSE h

\* getHandle(): the active handle, NotConfigured before configure
getHandle(h) ==
  IF h = NoHandle
  THEN [raised |-> TRUE, error |-> "NotConfigured", handle |-> NoHandle]
  ELSE [raised |-> FALSE, error |-> "", handle |-> h]

\* ---------------------------------------------------------- Issuer engine
\* getMetadata(): the IdP metadata rendered from the active configuration
getMetadata(h) ==
  IF getHandle(h).raised
  THEN [raised |-> TRUE, error |-> getHandle(h).error, xml |-> ""]
  ELSE [raised |-> FALSE, error |-> "", xml |-> "EntityDescriptor"]

\* mutant: an issuer that is not in the trust configuration is accepted
processAuthnRequest_AcceptUnknown(msg) ==
  [ok |-> msg.valid, sp |-> IF msg.valid THEN msg.sp ELSE NoSP]

\* decode, verify signature and issuer: a context, or a failure
processAuthnRequest(msg) ==
  IF msg.valid /\ msg.sp \in KnownSPs
  THEN [ok |-> TRUE, sp |-> msg.sp]
  ELSE [ok |-> FALSE, sp |-> NoSP]

\* mutant: the ProviderSession is recorded before the Response is built
buildSAMLResponse_RecordFirst(ps, sp, nameId, toolkitOk, instr) ==
  [ok |-> toolkitOk, ps |-> recordProviderSession(ps, sp, nameId),
   recorded |-> TRUE, instr |-> instr]

\* builds the signed Response, then records the ProviderSession
buildSAMLResponse(ps, sp, nameId, toolkitOk, instr) ==
  IF toolkitOk
  THEN [ok |-> TRUE, ps |-> recordProviderSession(ps, sp, nameId),
        recorded |-> TRUE, instr |-> instr]
  ELSE [ok |-> FALSE, ps |-> ps, recorded |-> FALSE, instr |-> instr]

\* decode and verify a LogoutRequest or LogoutResponse
processLogoutRequest(msg, isRequest) ==
  IF msg.valid /\ msg.sp \in KnownSPs
  THEN [ok |-> TRUE, isRequest |-> isRequest, sp |-> msg.sp]
  ELSE [ok |-> FALSE, isRequest |-> isRequest, sp |-> NoSP]

\* mutant: a provider that is not in the trust configuration ends the walk
initiateLogout_AbortOnUnknown(w) ==
  IF ~w.active THEN [to |-> NoSP, walk |-> w]
  ELSE IF isWalkExhausted(w) THEN [to |-> NoSP, walk |-> NoWalk]
  ELSE LET n == nextUnvisited(w) IN
       IF n.provider.sp \in KnownSPs
       THEN [to |-> n.provider.sp, walk |-> n.walk]
       ELSE [to |-> NoSP, walk |-> NoWalk]

RECURSIVE initiateLogout(_)
\* pops the next unvisited ProviderSession of the active walk; a provider that
\* is not in the trust configuration is skipped; None when there is no walk or
\* the walk is exhausted (the walk is then destroyed)
initiateLogout(w) ==
  IF ~w.active THEN [to |-> NoSP, walk |-> w]
  ELSE IF isWalkExhausted(w) THEN [to |-> NoSP, walk |-> NoWalk]
  ELSE LET n == nextUnvisited(w) IN
       IF n.provider.sp \in KnownSPs
       THEN [to |-> n.provider.sp, walk |-> n.walk]
       ELSE initiateLogout(n.walk)

\* SOAP-bound LogoutRequest: always an envelope, unless the toolkit raises
processSoapLogout(ps, envelope, msg, raises) ==
  IF envelope # SoapLogoutEnvelope
  THEN [raised |-> FALSE, xml |-> "soap:Client", ps |-> ps]
  ELSE IF raises
  THEN [raised |-> TRUE, xml |-> "", ps |-> ps]
  ELSE IF ~(msg.valid /\ msg.sp \in KnownSPs)
  THEN [raised |-> FALSE, xml |-> "soap:Client", ps |-> ps]
  ELSE [raised |-> FALSE, xml |-> "LogoutResponse",
        ps |-> completeProvider(ps, msg.sp)]

\* ------------------------------------------------------------------ router
Idle ==
  [route |-> "none", pc |-> "idle", sp |-> NoSP, sid |-> NoSession,
   target |-> NoSession, env |-> "", resp |-> <<>>, fwd |-> "none",
   tags |-> {}]

\* what happened to an exchange is noted in its tags
Tag(x, tags) == [x EXCEPT !.tags = @ \cup tags]

LookupTags(lookup) ==
  IF lookup.raised THEN {"lookupRaised"}
  ELSE IF lookup.id = NoSession THEN {"noSessionId"} ELSE {}

SessionTags(session) ==
  IF session = "rejected" THEN {"lookupRaised"}
  ELSE IF session = "null" THEN {"nullSession"} ELSE {}

Response(status, ctype, body, to) ==
  [status |-> status, ctype |-> ctype, body |-> body, to |-> to]

\* res.send / res.redirect: the answer is emitted and the SSOContext discarded
Respond(x, r) ==
  [Idle EXCEPT !.route = x.route, !.pc = "done", !.sid = x.sid,
               !.target = x.target, !.resp = Append(x.resp, r),
               !.tags = x.tags]

\* the request is handed to another handler and leaves this one unanswered
Forward(x, to) ==
  [Idle EXCEPT !.route = x.route, !.pc = "done", !.sid = x.sid,
               !.resp = x.resp, !.fwd = to, !.tags = x.tags]

\* if (r.method === "POST" && r.body) send the form, else redirect to r.url
SendInstruction(x, instr, msg, to) ==
  IF instr = "AutoPostForm"
  THEN Respond(x, Response(200, "text/html", msg, to))
  ELSE Respond(x, Response(302, "", msg, to))

\* catch (err) { next(err) } of /singleSignOn and /singleLogout
CatchNext(x) == Forward(x, "next(err)")

\* the user is not authenticated: requireAuth middleware, or 401
Unauthenticated(x, auth) ==
  IF auth
  THEN Forward(x, "requireAuth")
  ELSE Respond(x, Response(401, "text/html", "Authentication required", NoSP))

\* mutant: whatever getMetadata gave is sent as the metadata document
metadata_Unguarded(r) ==
  Respond([Idle EXCEPT !.route = "metadata"],
          Response(200, "application/samlmetadata+xml", r.xml, NoSP))

\* GET /metadata: the metadata document, or 500 when getMetadata throws
metadata(r) ==
  IF r.raised
  THEN Respond([Idle EXCEPT !.route = "metadata"],
               Response(500, "text/html", "Error generating metadata", NoSP))
  ELSE Respond([Idle EXCEPT !.route = "metadata"],
               Response(200, "application/samlmetadata+xml", r.xml, NoSP))

\* mutant: a failed processAuthnRequest is not noticed and the handler goes on
singleSignOn_Context_Unchecked(x, ctx, lookup, auth) ==
  LET y == Tag([x EXCEPT !.sp = ctx.sp], LookupTags(lookup)) IN
  IF lookup.raised THEN CatchNext(y)
  ELSE IF lookup.id # NoSession
       THEN [y EXCEPT !.pc = "getSessionData", !.sid = lookup.id]
       ELSE Unauthenticated(y, auth)

\* /singleSignOn once processAuthnRequest has settled, up to getSessionData
singleSignOn_Context(x, ctx, lookup, auth) ==
  IF ~ctx.ok THEN CatchNext(x)
  ELSE LET y == Tag([x EXCEPT !.sp = ctx.sp], LookupTags(lookup)) IN
       IF lookup.raised THEN CatchNext(y)
       ELSE IF lookup.id # NoSession
            THEN [y EXCEPT !.pc = "getSessionData", !.sid = lookup.id]
            ELSE Unauthenticated(y, auth)

\* mutant: the Response is built whether or not a session record was found
singleSignOn_Session_NoCheck(x, session, auth) ==
  LET y == Tag(x, SessionTags(session)) IN
  IF session = "rejected" THEN CatchNext(y)
  ELSE Tag([y EXCEPT !.pc = "buildSAMLResponse"], {"buildInvoked"})

\* /singleSignOn once getSessionData has settled, up to buildSAMLResponse
singleSignOn_Session(x, session, auth) ==
  LET y == Tag(x, SessionTags(session)) IN
  IF session = "rejected" THEN CatchNext(y)
  ELSE IF session = "record"
       THEN Tag([y EXCEPT !.pc = "buildSAMLResponse"], {"buildInvoked"})
       ELSE Unauthenticated(y, auth)

\* /singleSignOn once buildSAMLResponse has settled
singleSignOn_Response(x, r) ==
  IF r.ok
  THEN SendInstruction(x, r.instr, "SAMLResponse", x.sp)
  ELSE CatchNext(x)

\* mutant: a LogoutResponse is answered with the portal redirect at once, the
\* walk is not continued
singleLogout_Context_NoContinue(x, ctx, target, lookup) ==
  IF ~ctx.ok THEN CatchNext(x)
  ELSE IF ctx.isRequest
       THEN [x EXCEPT !.pc = "buildLogoutResponse", !.sp = ctx.sp,
                      !.target = target]
  ELSE LET y == Tag([x EXCEPT !.target = target], LookupTags(lookup)) IN
       IF lookup.raised THEN CatchNext(y)
       ELSE Respond([y EXCEPT !.sid = lookup.id],
                    Response(302, "", "portal", NoSP))

\* /singleLogout once processLogoutRequest has settled; target is the local
\* session the LogoutRequest or LogoutResponse refers to
singleLogout_Context(x, ctx, target, lookup) ==
  IF ~ctx.ok THEN CatchNext(x)
  ELSE IF ctx.isRequest
       THEN [x EXCEPT !.pc = "buildLogoutResponse", !.sp = ctx.sp,
                      !.target = target]
  ELSE LET y == Tag([x EXCEPT !.target = target], LookupTags(lookup)) IN
       IF lookup.raised THEN CatchNext(y)
       ELSE IF lookup.id # NoSession
            THEN [y EXCEPT !.pc = "initiateLogout", !.sid = lookup.id]
            ELSE Respond(y, Response(302, "", "portal", NoSP))

\* /singleLogout, LogoutRequest branch, once buildLogoutResponse has settled
singleLogout_Response(x, ok, instr) ==
  IF ok
  THEN SendInstruction(x, instr, "LogoutResponse", x.sp)
  ELSE CatchNext(x)

\* /singleLogout, LogoutResponse branch, once initiateLogout has settled
singleLogout_Next(x, to, instr) ==
  IF to # NoSP
  THEN SendInstruction(x, instr, "LogoutRequest", to)
  ELSE Respond(x, Response(302, "", "portal", NoSP))

\* typeof req.body === "string" ? req.body : String(req.body)
StringOf(body) ==
  CASE body.type = "string" -> body.text
    [] body.type = "undefined" -> "undefined"

SoapFault(status, faultcode) == Response(status, "text/xml", faultcode, NoSP)

\* mutant: the session id is looked up before the try block is entered
singleLogoutSOAP_Start_LookupOutsideTry(x, body, lookup) ==
  LET soapEnvelope == StringOf(body)
      y == Tag(x, LookupTags(lookup))
  IN IF lookup.raised THEN Forward(y, "unhandled")
     ELSE IF soapEnvelope = ""
     THEN Respond(y, SoapFault(400, "soap:Client"))
     ELSE Tag([y EXCEPT !.pc = "processSoapLogout", !.env = soapEnvelope,
                        !.sid = lookup.id], {"soapInvoked"})

\* /singleLogoutSOAP up to the await of processSoapLogout
singleLogoutSOAP_Start(x, body, lookup) ==
  LET soapEnvelope == StringOf(body) IN
  IF soapEnvelope = ""
  THEN Respond(x, SoapFault(400, "soap:Client"))
  ELSE LET y == Tag(x, LookupTags(lookup)) IN
       IF lookup.raised
       THEN Respond(y, SoapFault(500, "soap:Server"))
       ELSE Tag([y EXCEPT !.pc = "processSoapLogout", !.env = soapEnvelope,
                          !.sid = lookup.id], {"soapInvoked"})

\* mutant: the error is passed on to the next handler, as the other routes do
singleLogoutSOAP_Result_Next(x, r) ==
  IF r.raised
  THEN CatchNext(x)
  ELSE Respond(x, Response(200, "text/xml", r.xml, NoSP))

\* /singleLogoutSOAP once processSoapLogout has settled
singleLogoutSOAP_Result(x, r) ==
  IF r.raised
  THEN Respond(x, SoapFault(500, "soap:Server"))
  ELSE Respond(x, Response(200, "text/xml", r.xml, NoSP))

\* ----------------------------------------------------------------- history
NoHistory == [expected |-> <<>>, results |-> <<>>, raced |-> <<>>]

\* the results of the initiateLogout calls of a walk, as far as they matter:
\* one call for each provider and one call beyond
MaxResults == NumSPs + 1

Called(h, to) ==
  IF Len(h.results) < MaxResults
  THEN [h EXCEPT !.results = Append(@, to)]
  ELSE h

\* exchanges of the LogoutResponse branch that wait on initiateLogout(s)
Waiting(s) == {f \in Exchanges : exch[f].pc = "initiateLogout" /\ exch[f].sid = s}

\* ------------------------------------------------- InMemoryTokenManager
\* for (const [id, entry] of this.tokens) if (entry.expires < now) delete
cleanExpired(t, time) ==
  [id \in TokenIds |->
     IF t[id].set /\ t[id].expires < time THEN NoEntry ELSE t[id]]

\* createToken(data, timeout) for the id that generateId() returns
createToken(t, id, data, timeout, time) ==
  LET expires == time + (IF timeout = Undefined THEN defaultTimeout
                         ELSE timeout)
  IN [cleanExpired(t, time) EXCEPT
        ![id] = [data |-> data, expires |-> expires, set |-> TRUE]]

\* mutant: the token is never deleted by a read
getToken_AlwaysKeep(t, id, keep, time) ==
  IF ~t[id].set \/ t[id].expires < time
  THEN [result |-> Null, tokens |-> [t EXCEPT ![id] = NoEntry]]
  ELSE [result |-> t[id].data, tokens |-> t]

\* getToken(tokenId, keep = false): [result, tokens afterwards]
getToken(t, id, keep, time) ==
  IF ~t[id].set \/ t[id].expires < time
  THEN [result |-> Null, tokens |-> [t EXCEPT ![id] = NoEntry]]
  ELSE [result |-> t[id].data,
        tokens |-> IF keep THEN t ELSE [t EXCEPT ![id] = NoEntry]]

\* mutant: the expiry of the entry is not looked at
updateToken_NoExpiry(t, id, value, time) ==
  IF ~t[id].set
  THEN [result |-> FALSE, tokens |-> t]
  ELSE [result |-> TRUE, tokens |-> [t EXCEPT ![id].data = value]]

\* updateToken(tokenId, key, value): [result, tokens afterwards]
updateToken(t, id, value, time) ==
  IF ~t[id].set \/ t[id].expires < time
  THEN [result |-> FALSE, tokens |-> t]
  ELSE [result |-> TRUE, tokens |-> [t EXCEPT ![id].data = value]]

deleteToken(t, id) == [t EXCEPT ![id] = NoEntry]

\* what has happened to a token id so far
NeverIssued == [life |-> "never", due |-> 0]

\* never created, consumed by a one-time read, deleted, expired, or live
StatusOf(id) ==
  IF issued[id].life = "live" /\ issued[id].due < now THEN "expired"
  ELSE issued[id].life

\* how a call left the store: as it was, without the entry of id, or changed
StoreAfter(t, id) ==
  IF t = tokens THEN "same"
  ELSE IF t = [tokens EXCEPT ![id] = NoEntry] THEN "dropped"
  ELSE "changed"

\* the clock has been stepped Ticks(now) times
Ticks(time) == (time \div defaultTimeout) + (time % defaultTimeout)

TokenInit ==
  /\ now = 0
  /\ tokens = [id \in TokenIds |-> NoEntry]
  /\ issued = [id \in TokenIds |-> NeverIssued]
  /\ tokRet = [op |-> "none"]

\* generateId() returns an id that no token has had
CreateToken(data, timeout) ==
  /\ \E id \in TokenIds :
       /\ issued[id].life = "never"
       /\ \A j \in TokenIds : j < id => issued[j].life # "never"
       /\ tokens' = createToken(tokens, id, data, timeout, now)
       /\ issued' = [issued EXCEPT ![id] =
                       [life |-> "live", due |-> tokens'[id].expires]]
       /\ tokRet' = [op |-> "createToken", id |-> id]
  /\ UNCHANGED now
  /\ UNCHANGED notTokenVars

GetToken(id, keep) ==
  /\ LET r == getToken(tokens, id, keep, now) IN
       /\ tokens' = r.tokens
       /\ issued' = IF r.result # Null /\ ~keep
                     THEN [issued EXCEPT ![id].life = "consumed"]
                     ELSE issued
       /\ tokRet' = [op |-> "getToken", id |-> id, keep |-> keep,
                     result |-> r.result, status |-> StatusOf(id),
                     store |-> StoreAfter(r.tokens, id)]
  /\ UNCHANGED now
  /\ UNCHANGED notTokenVars

UpdateToken(id, value) ==
  /\ LET r == updateToken(tokens, id, value, now) IN
       /\ tokens' = r.tokens
       /\ tokRet' = [op |-> "updateToken", id |-> id, value |-> value,
                     result |-> r.result, status |-> StatusOf(id),
                     store |-> StoreAfter(r.tokens, id)]
  /\ UNCHANGED <<now, issued>>
  /\ UNCHANGED notTokenVars

DeleteToken(id) ==
  /\ tokens' = deleteToken(tokens, id)
  /\ issued' = IF issued[id].life = "never" THEN issued
                ELSE [issued EXCEPT ![id].life = "deleted"]
  /\ tokRet' = [op |-> "deleteToken", id |-> id]
  /\ UNCHANGED now
  /\ UNCHANGED notTokenVars

\* time passes
Advance(d) ==
  /\ Ticks(now) < MaxTicks
  /\ now' = now + d
  /\ UNCHANGED <<tokens, issued, tokRet>>
  /\ UNCHANGED notTokenVars

TokenNext ==
  \/ \E data \in Values, timeout \in Timeouts : CreateToken(data, timeout)
  \/ \E id \in TokenIds, keep \in BOOLEAN : GetToken(id, keep)
  \/ \E id \in TokenIds, value \in Values : UpdateToken(id, value)
  \/ \E id \in TokenIds : DeleteToken(id)
  \/ \E d \in Delays : Advance(d)

\* ------------------------------------------------------ TwoFactorManager
\* this.pendingStore[token]: an own property, else what the prototype holds
Lookup(store, token) ==
  IF token \in PendingTokens /\ store[token] # NoPending THEN store[token]
  ELSE IF token \in PrototypeKeys THEN Inherited(token)
  ELSE NoPending

\* Date.now() - session.timestamp > this.pendingTimeout * 1000; with an
\* undefined timestamp the difference is NaN and the comparison is false
Older(session, time) ==
  IF session.timestamp = Undefined THEN FALSE
  ELSE time - session.timestamp > pendingTimeout

\* delete this.pendingStore[token]: own properties only
deletePendingSession(store, token) ==
  IF token \in PendingTokens THEN [store EXCEPT ![token] = NoPending]
  ELSE store

createPendingSession(store, token, time) ==
  [store EXCEPT ![token] = Pending(token, time)]

\* getPendingSession(token): [result, pendingStore afterwards]
getPendingSession(store, token, time) ==
  LET session == Lookup(store, token) IN
  IF session = NoPending
  THEN [result |-> NullPending, store |-> store]
  ELSE IF Older(session, time)
  THEN [result |-> NullPending, store |-> deletePendingSession(store, token)]
  ELSE [result |-> session, store |-> store]

\* is2FARequired(session): "true", "false", or the TypeError that
\* deviceList.some raises when deviceList is no array
is2FARequired(mods, devices) ==
  IF devices.kind \in {"undefined", "emptyString"} THEN "false"
  ELSE IF devices.kind = "invalidJSON" THEN "false"
  ELSE LET deviceList == devices.value IN
       IF mods = {} THEN "false"
       ELSE IF deviceList.type # "array" THEN "TypeError"
       ELSE IF \E m \in mods : \E i \in 1..Len(deviceList.items) :
                 deviceList.items[i] = m
            THEN "true"
            ELSE "false"

NeverMade == [life |-> "never", timestamp |-> 0]

\* the clock has been stepped PendingTicks(clock) times
PendingTicks(time) == (time \div pendingTimeout) + (time % pendingTimeout)

TwoFactorInit ==
  /\ clock = 0
  /\ modules = {}
  /\ pendingStore = [t \in PendingTokens |-> NoPending]
  /\ timers = {}
  /\ made = [t \in PendingTokens |-> NeverMade]
  /\ sfRet = [op |-> "none"]

\* init(): loads the TOTP module if conf.totp2fActivation
InitModules(activation) ==
  /\ modules = {}
  /\ modules' = IF activation THEN {"TOTP"} ELSE {}
  /\ sfRet' = [op |-> "init"]
  /\ UNCHANGED <<clock, pendingStore, timers, made>>
  /\ UNCHANGED notTwoFactorVars

\* randomBytes returns a token that no pending session has had
CreatePendingSession ==
  /\ \E token \in PendingTokens :
       /\ made[token].life = "never"
       /\ \A j \in PendingTokens : j < token => made[j].life # "never"
       /\ pendingStore' = createPendingSession(pendingStore, token, clock)
       /\ timers' = timers \cup {[token |-> token, due |-> clock + pendingTimeout]}
       /\ made' = [made EXCEPT ![token] = [life |-> "live", timestamp |-> clock]]
       /\ sfRet' = [op |-> "createPendingSession", token |-> token]
  /\ UNCHANGED <<clock, modules>>
  /\ UNCHANGED notTwoFactorVars

\* the callback of setTimeout runs, at its time or later
PendingTimer(tm) ==
  /\ tm \in timers
  /\ clock >= tm.due
  /\ pendingStore' = deletePendingSession(pendingStore, tm.token)
  /\ timers' = timers \ {tm}
  /\ made' = [made EXCEPT ![tm.token].life = "deleted"]
  /\ sfRet' = [op |-> "timer", token |-> tm.token]
  /\ UNCHANGED <<clock, modules>>
  /\ UNCHANGED notTwoFactorVars

\* what the caller of getPendingSession(token) is entitled to: the state
\* stored for a token that createPendingSession returned, that was not
\* deleted and that is not older than pendingTimeout
Entitled(token) ==
  IF /\ token \in PendingTokens
     /\ made[token].life = "live"
     /\ clock - made[token].timestamp <= pendingTimeout
  THEN Pending(token, made[token].timestamp)
  ELSE NullPending

GetPendingSession(token) ==
  /\ LET r == getPendingSession(pendingStore, token, clock) IN
       /\ pendingStore' = r.store
       /\ sfRet' = [op |-> "getPendingSession", token |-> token,
                    result |-> r.result, entitled |-> Entitled(token)]
  /\ UNCHANGED <<clock, modules, timers, made>>
  /\ UNCHANGED notTwoFactorVars

DeletePendingSession(token) ==
  /\ pendingStore' = deletePendingSession(pendingStore, token)
  /\ made' = IF token \in PendingTokens /\ made[token].life = "live"
              THEN [made EXCEPT ![token].life = "deleted"]
              ELSE made
  /\ sfRet' = [op |-> "deletePendingSession", token |-> token]
  /\ UNCHANGED <<clock, modules, timers>>
  /\ UNCHANGED notTwoFactorVars

Is2FARequired(devices) ==
  /\ sfRet' = [op |-> "is2FARequired", devices |-> devices,
               result |-> is2FARequired(modules, devices)]
  /\ UNCHANGED <<clock, modules, pendingStore, timers, made>>
  /\ UNCHANGED notTwoFactorVars

\* time passes
Elapse(d) ==
  /\ PendingTicks(clock) < MaxTicks
  /\ clock' = clock + d
  /\ UNCHANGED <<modules, pendingStore, timers, made, sfRet>>
  /\ UNCHANGED notTwoFactorVars

TwoFactorNext ==
  \/ \E activation \in BOOLEAN : InitModules(activation)
  \/ CreatePendingSession
  \/ \E tm \in timers : PendingTimer(tm)
  \/ \E token \in TokenArgs : GetPendingSession(token)
  \/ \E token \in TokenArgs : DeletePendingSession(token)
  \/ \E devices \in DevicesValues : Is2FARequired(devices)
  \/ \E d \in PendingDelays : Elapse(d)

\* -------------------------------------------------------- PluginManager
\* a.priority ?? 0
PriorityOf(r) == IF r.priority = Undefined THEN 0 ELSE r.priority

\* Array.prototype.sort is stable: r goes behind every entry that does not
\* compare greater
InsertByPriority(sorted, r) ==
  LET before == {i \in 1..Len(sorted) :
                   PriorityOf(sorted[i]) <= PriorityOf(r)}
      n == Cardinality(before)
  IN SubSeq(sorted, 1, n) \o <<r>> \o SubSeq(sorted, n + 1, Len(sorted))

RECURSIVE SortByPriority(_)
SortByPriority(reg) ==
  IF reg = <<>> THEN <<>>
  ELSE InsertByPriority(SortByPriority(SubSeq(reg, 1, Len(reg) - 1)),
                        reg[Len(reg)])

\* getSortedRegistry(): the package names, lower priority first
getSortedRegistry(reg) ==
  LET sorted == SortByPriority(reg)
  IN [i \in 1..Len(sorted) |-> sorted[i].packageName]

\* registerPlugin(registration)
registerPlugin(reg, registration) == Append(reg, registration)

\* registerHooks(plugin): push on the list of every hook the plugin defines
registerHooks(registry, plugin, hooks) ==
  [h \in Hooks |-> IF h \in hooks THEN Append(registry[h], plugin)
                   ELSE registry[h]]

\* mutant: a result stops the hook only by its code
stops_CodeOnly(result) == ~result.thrown /\ result.code # PE_OK

\* result.code !== PE_OK || result.stop, for a hook that returned
stops(result) == ~result.thrown /\ (result.code # PE_OK \/ result.stop)

\* mutant: close() leaves the hook lists as they are
clearHooks_Keep(registry) == registry

\* for (const hooks of this.hookRegistry.values()) hooks.length = 0
clearHooks(registry) == [h \in Hooks |-> <<>>]

\* the executeHook call in progress loses the list it started on
Disturb(run, registry) ==
  IF run.pc = "running" /\ registry # hookRegistry
  THEN [run EXCEPT !.stable = FALSE]
  ELSE run

PluginInit ==
  /\ pluginRegistry = DefaultRegistry
  /\ phase = "new"
  /\ queue = <<>>
  /\ plugins = <<>>
  /\ loaded = [p \in Packages |-> NotLoaded]
  /\ hookRegistry = [h \in Hooks |-> <<>>]
  /\ hookRun = NoHook
  /\ closeLog = <<>>

RegisterPlugin(priority) ==
  /\ phase = "new"
  /\ Len(pluginRegistry) = Len(DefaultRegistry)
  /\ pluginRegistry' =
       registerPlugin(pluginRegistry, Registration(RegisteredPackage, priority))
  /\ UNCHANGED <<phase, queue, plugins, loaded, hookRegistry, hookRun, closeLog>>
  /\ UNCHANGED notPluginVars

\* init(portal), up to the first loadPlugin
PM_Init ==
  /\ phase = "new"
  /\ phase' = "registry"
  /\ queue' = getSortedRegistry(pluginRegistry)
  /\ UNCHANGED <<pluginRegistry, plugins, loaded, hookRegistry, hookRun, closeLog>>
  /\ UNCHANGED notPluginVars

\* one turn of either loop of init(): shouldEnablePlugin, then loadPlugin
\* with the outcome of import() and of plugin.init(), and what the plugin
\* object defines
PM_LoadPlugin(enabled, imported, success, hooks, close) ==
  /\ phase \in {"registry", "custom"}
  /\ queue # <<>>
  /\ phase = "custom" => enabled
  /\ LET packageName == Head(queue) IN
       IF enabled /\ imported /\ success
       THEN /\ plugins' = Append(plugins, packageName)
            /\ loaded' = [loaded EXCEPT ![packageName] =
                            [hooks |-> hooks, close |-> close, loaded |-> TRUE]]
            /\ hookRegistry' = registerHooks(hookRegistry, packageName, hooks)
       ELSE UNCHANGED <<plugins, loaded, hookRegistry>>
  /\ queue' = Tail(queue)
  /\ hookRun' = Disturb(hookRun, hookRegistry')
  /\ UNCHANGED <<pluginRegistry, phase, closeLog>>
  /\ UNCHANGED notPluginVars

\* the registry is done: getCustomPlugins() gives the second loop its list
PM_LoadCustom(customPlugins) ==
  /\ phase = "registry"
  /\ queue = <<>>
  /\ phase' = IF customPlugins = <<>> THEN "ready" ELSE "custom"
  /\ queue' = customPlugins
  /\ UNCHANGED <<pluginRegistry, plugins, loaded, hookRegistry, hookRun, closeLog>>
  /\ UNCHANGED notPluginVars

\* init() returns
PM_InitDone ==
  /\ phase = "custom"
  /\ queue = <<>>
  /\ phase' = "ready"
  /\ UNCHANGED <<pluginRegistry, queue, plugins, loaded, hookRegistry, hookRun, closeLog>>
  /\ UNCHANGED notPluginVars

\* executeHook(hookName, req), up to the first await: the first plugin of
\* the list is called, or PE_OK is returned at once for an empty list
ExecuteHook(hook) ==
  /\ hookRun.pc # "running"
  /\ phase \notin {"registry", "custom"}
  /\ LET list == hookRegistry[hook] IN
       hookRun' =
         IF list = <<>>
         THEN [pc |-> "done", hook |-> hook, list |-> list, calls |-> <<>>,
               result |-> Result(PE_OK, FALSE), last |-> Result(PE_OK, FALSE),
               stable |-> TRUE, closed |-> phase = "closed"]
         ELSE [pc |-> "running", hook |-> hook, list |-> list,
               calls |-> <<list[1]>>,
               result |-> Result(PE_OK, FALSE), last |-> Result(PE_OK, FALSE),
               stable |-> TRUE, closed |-> phase = "closed"]
  /\ UNCHANGED <<pluginRegistry, phase, queue, plugins, loaded, hookRegistry, closeLog>>
  /\ UNCHANGED notPluginVars

\* the awaited hook returns or throws; the loop goes on to the next plugin
\* of the list as it is now, or executeHook returns
HookReturns(result) ==
  /\ hookRun.pc = "running"
  /\ LET list == hookRegistry[hookRun.hook]
         i == Len(hookRun.calls)
     IN hookRun' =
          IF stops(result)
          THEN [hookRun EXCEPT !.pc = "done", !.result = result,
                               !.last = result]
          ELSE IF i < Len(list)
          THEN [hookRun EXCEPT !.calls = Append(@, list[i + 1]),
                               !.last = result]
          ELSE [hookRun EXCEPT !.pc = "done", !.last = result,
                               !.result = Result(PE_OK, FALSE)]
  /\ UNCHANGED <<pluginRegistry, phase, queue, plugins, loaded, hookRegistry, closeLog>>
  /\ UNCHANGED notPluginVars

\* what close() does once no plugin is left to close
Cleared(left) ==
  IF left = <<>>
  THEN /\ phase' = "closed"
       /\ plugins' = <<>>
       /\ hookRegistry' = clearHooks(hookRegistry)
  ELSE /\ phase' = "closing"
       /\ UNCHANGED <<plugins, hookRegistry>>

\* the plugins of close()'s loop that define close
Closable(list) == SelectSeq(list, LAMBDA p : loaded[p].close)

\* close(), up to the first await: the first plugin that defines close is
\* called; with none, the maps are cleared at once
PM_Close ==
  /\ phase = "ready"
  /\ LET todo == Closable(plugins) IN
       /\ closeLog' = IF todo = <<>> THEN <<>>
                       ELSE <<[plugin |-> Head(todo), threw |-> FALSE]>>
       /\ queue' = todo
       /\ Cleared(todo)
  /\ hookRun' = Disturb(hookRun, hookRegistry')
  /\ UNCHANGED <<pluginRegistry, loaded>>
  /\ UNCHANGED notPluginVars

\* the awaited plugin.close() returns or throws; close() calls the next
\* plugin or clears the maps
PM_PluginClosed(throws) ==
  /\ phase = "closing"
  /\ LET left == Tail(queue)
         log == [closeLog EXCEPT ![Len(closeLog)].threw = throws]
     IN
       /\ queue' = left
       /\ closeLog' = IF left = <<>> THEN log
                       ELSE Append(log, [plugin |-> Head(left), threw |-> FALSE])
       /\ Cleared(left)
  /\ hookRun' = Disturb(hookRun, hookRegistry')
  /\ UNCHANGED <<pluginRegistry, loaded>>
  /\ UNCHANGED notPluginVars

PluginNext ==
  \/ \E priority \in RegisteredPriorities : RegisterPlugin(priority)
  \/ PM_Init
  \/ \E enabled, imported, success, close \in BOOLEAN, hooks \in SUBSET Hooks :
       PM_LoadPlugin(enabled, imported, success, hooks, close)
  \/ \E customPlugins \in CustomPlugins : PM_LoadCustom(customPlugins)
  \/ PM_InitDone
  \/ \E hook \in Hooks : ExecuteHook(hook)
  \/ \E result \in HookOutcomes : HookReturns(result)
  \/ PM_Close
  \/ \E throws \in BOOLEAN : PM_PluginClosed(throws)

\* ---------------------------------------------------------- lasso-loader
\* what the loader's caches hold when a call begins
Caches == [module |-> lassoModule, error |-> loadError]

\* the module system answers one way per mechanism for the life of the process
Answers(how, answer) == importer[how] \in {"untried", answer}

\* getLasso(): the cached module, or LassoNotAvailableError
getLasso(module, error) ==
  IF module = "null"
  THEN [result |-> "LassoNotAvailableError", module |-> module]
  ELSE [result |-> module, module |-> module]

\* isLassoLoaded()
isLassoLoaded(module) == module # "null"

LassoInit ==
  /\ lassoModule = "null"
  /\ loadError = "null"
  /\ importer = [how \in {"import", "require"} |-> "untried"]
  /\ loading = [c \in Loaders |-> [pc |-> "idle", began |-> Caches]]
  /\ lassoRet = [op |-> "none"]

\* loadLasso(), up to the await: a cached module or a cached error ends the
\* call at once, otherwise import("lasso.js") is started
LoadLasso(c) ==
  /\ loading[c].pc = "idle"
  /\ IF lassoModule # "null"
     THEN /\ lassoRet' = [op |-> "loadLasso", result |-> lassoModule,
                          attempted |-> FALSE, began |-> Caches]
          /\ UNCHANGED loading
     ELSE IF loadError # "null"
     THEN /\ lassoRet' = [op |-> "loadLasso",
                          result |-> "LassoNotAvailableError",
                          attempted |-> FALSE, began |-> Caches]
          /\ UNCHANGED loading
     ELSE /\ loading' = [loading EXCEPT ![c] =
                           [pc |-> "importing", began |-> Caches]]
          /\ UNCHANGED lassoRet
  /\ UNCHANGED <<lassoModule, loadError, importer>>
  /\ UNCHANGED notLassoVars

\* the import settles: the module is cached and returned, or the error is
\* cached and LassoNotAvailableError thrown
LoadLasso_Settled(c, answer) ==
  /\ loading[c].pc = "importing"
  /\ Answers("import", answer)
  /\ importer' = [importer EXCEPT !["import"] = answer]
  /\ IF answer = "ok"
     THEN /\ lassoModule' = "lasso.js"
          /\ UNCHANGED loadError
     ELSE /\ loadError' = "Error"
          /\ UNCHANGED lassoModule
  /\ lassoRet' = [op |-> "loadLasso",
                  result |-> IF answer = "ok" THEN "lasso.js"
                             ELSE "LassoNotAvailableError",
                  attempted |-> TRUE, began |-> loading[c].began]
  /\ loading' = [loading EXCEPT ![c].pc = "idle"]
  /\ UNCHANGED notLassoVars

IsLassoLoaded ==
  /\ lassoRet' = [op |-> "isLassoLoaded",
                  result |-> IF isLassoLoaded(lassoModule) THEN "true" ELSE "false",
                  attempted |-> FALSE, began |-> Caches]
  /\ UNCHANGED <<lassoModule, loadError, importer, loading>>
  /\ UNCHANGED notLassoVars

GetLasso ==
  /\ LET r == getLasso(lassoModule, loadError) IN
       /\ lassoModule' = r.module
       /\ lassoRet' = [op |-> "getLasso", result |-> r.result,
                       attempted |-> FALSE, began |-> Caches]
  /\ UNCHANGED <<loadError, importer, loading>>
  /\ UNCHANGED notLassoVars

\* tryLoadLassoSync(): the caches first, then require("lasso.js")
TryLoadLassoSync(answer) ==
  /\ IF lassoModule # "null"
     THEN /\ lassoRet' = [op |-> "tryLoadLassoSync", result |-> "true",
                          attempted |-> FALSE, began |-> Caches]
          /\ UNCHANGED <<lassoModule, loadError, importer>>
     ELSE IF loadError # "null"
     THEN /\ lassoRet' = [op |-> "tryLoadLassoSync", result |-> "false",
                          attempted |-> FALSE, began |-> Caches]
          /\ UNCHANGED <<lassoModule, loadError, importer>>
     ELSE /\ Answers("require", answer)
          /\ importer' = [importer EXCEPT !["require"] = answer]
          /\ IF answer = "ok"
             THEN /\ lassoModule' = "lasso.js"
                  /\ UNCHANGED loadError
             ELSE /\ loadError' = "Error"
                  /\ UNCHANGED lassoModule
          /\ lassoRet' = [op |-> "tryLoadLassoSync",
                          result |-> IF answer = "ok" THEN "true" ELSE "false",
                          attempted |-> TRUE, began |-> Caches]
  /\ UNCHANGED loading
  /\ UNCHANGED notLassoVars

LassoNext ==
  \/ \E c \in Loaders : LoadLasso(c)
  \/ \E c \in Loaders, answer \in LoadOutcomes : LoadLasso_Settled(c, answer)
  \/ IsLassoLoaded
  \/ GetLasso
  \/ \E answer \in LoadOutcomes : TryLoadLassoSync(answer)

\* ------------------------------------------------------- device registry
\* parseDevices(devicesJson): the array, or [] for anything else
parseDevices(devicesJson) ==
  IF devicesJson.kind = "array" THEN devicesJson.items ELSE <<>>

\* serializeDevices(devices): JSON.stringify of the array
serializeDevices(devices) == [kind |-> "array", items |-> devices]

\* getDevices(session)
getDevices(session) == parseDevices(session)

\* mutant: every device of the type is removed, whatever its epoch
removeDevice_AnyEpoch(session, type, epoch) ==
  LET devices == getDevices(session)
      filtered == SelectSeq(devices, LAMBDA d : ~(d.type = type))
  IN IF Len(filtered) = Len(devices)
     THEN [result |-> FALSE, session |-> session]
     ELSE [result |-> TRUE, session |-> serializeDevices(filtered)]

\* removeDevice(session, type, epoch): [result, session._2fDevices afterwards]
removeDevice(session, type, epoch) ==
  LET devices == getDevices(session)
      filtered == SelectSeq(devices,
                            LAMBDA d : ~(d.type = type /\ d.epoch = epoch))
  IN IF Len(filtered) = Len(devices)
     THEN [result |-> FALSE, session |-> session]
     ELSE [result |-> TRUE, session |-> serializeDevices(filtered)]

DeviceInit ==
  /\ session2f = [kind |-> "undefined", items |-> <<>>]
  /\ devRet = [op |-> "none"]

\* the session is read from the session store
LoadSession(stored) ==
  /\ session2f' = stored
  /\ devRet' = [op |-> "load"]
  /\ UNCHANGED notDeviceVars

RemoveDevice(type, epoch) ==
  /\ LET r == removeDevice(session2f, type, epoch) IN
       /\ session2f' = r.session
       /\ devRet' = [op |-> "removeDevice", type |-> type, epoch |-> epoch,
                     result |-> r.result, before |-> session2f]
  /\ UNCHANGED notDeviceVars

DeviceNext ==
  \/ \E stored \in SessionDevices : LoadSession(stored)
  \/ \E type \in DeviceTypes, epoch \in Epochs : RemoveDevice(type, epoch)

\* ----------------------------------------------------------------- base32
\* bit i of a number below 256
BitOf(n, i) == IF i > 7 THEN 0 ELSE (n \div (2 ^ i)) % 2

\* w << k on 32 bits: the bits shifted past bit 31 are lost
ShiftLeft(w, k) == [i \in BitIndex |-> IF i >= k THEN w[i - k] ELSE 0]

\* whether w << k loses a set bit
Overflows(w, k) == \E i \in BitIndex : i + k > 31 /\ w[i] = 1

\* w | n for a number below 256
BitOr(w, n) == [i \in BitIndex |-> IF w[i] = 1 \/ BitOf(n, i) = 1 THEN 1 ELSE 0]

\* (w >>> k) & 31
Low5(w, k) ==
  w[k] + 2 * w[k + 1] + 4 * w[k + 2] + 8 * w[k + 3] + 16 * w[k + 4]

\* (w >>> k) & 255
Low8(w, k) ==
  Low5(w, k) + 32 * w[k + 5] + 64 * w[k + 6] + 128 * w[k + 7]

\* while (bits >= 5) { output += BASE32_ALPHABET[...]; bits -= 5 }
RECURSIVE EncodeDrain(_)
EncodeDrain(st) ==
  IF st.bits >= 5
  THEN EncodeDrain([st EXCEPT
         !.output = Append(@, BASE32_ALPHABET[Low5(st.value, st.bits - 5) + 1]),
         !.bits = @ - 5])
  ELSE st

\* the for loop of base32Encode from byte i on
RECURSIVE EncodeLoop(_, _, _)
EncodeLoop(buf, i, st) ==
  IF i > Len(buf) THEN st
  ELSE EncodeLoop(buf, i + 1,
         EncodeDrain([st EXCEPT
           !.value = BitOr(ShiftLeft(@, 8), buf[i]),
           !.bits = @ + 8,
           !.wrapped = @ \/ Overflows(st.value, 8)]))

EncodeRun(buf) ==
  EncodeLoop(buf, 1,
             [value |-> Zero32, bits |-> 0, output |-> <<>>, wrapped |-> FALSE])

\* mutant: the bits left after the last byte are not written
base32Encode_NoTail(buf) == EncodeRun(buf).output

\* base32Encode(buffer)
base32Encode(buf) ==
  LET st == EncodeRun(buf) IN
  IF st.bits > 0
  THEN Append(st.output,
              BASE32_ALPHABET[Low5(ShiftLeft(st.value, 5 - st.bits), 0) + 1])
  ELSE st.output

\* input.replace(/=+$/, "")
RECURSIVE StripPadding(_)
StripPadding(input) ==
  IF input # <<>> /\ input[Len(input)] = "="
  THEN StripPadding(SubSeq(input, 1, Len(input) - 1))
  ELSE input

\* BASE32_ALPHABET.indexOf(c), counted from 0
IndexOf(c) ==
  IF \E k \in 1..Len(BASE32_ALPHABET) : BASE32_ALPHABET[k] = c
  THEN (CHOOSE k \in 1..Len(BASE32_ALPHABET) : BASE32_ALPHABET[k] = c) - 1
  ELSE -1

\* the for loop of base32Decode from character i on
RECURSIVE DecodeLoop(_, _, _)
DecodeLoop(input, i, st) ==
  IF i > Len(input) \/ st.error # "none" THEN st
  ELSE LET idx == IndexOf(input[i]) IN
       IF idx = -1 THEN [st EXCEPT !.error = "Invalid base32 character"]
       ELSE LET value == BitOr(ShiftLeft(st.value, 5), idx)
                bits == st.bits + 5
            IN DecodeLoop(input, i + 1,
                 IF bits >= 8
                 THEN [st EXCEPT !.value = value, !.bits = bits - 8,
                                 !.bytes = Append(@, Low8(value, bits - 8))]
                 ELSE [st EXCEPT !.value = value, !.bits = bits])

\* base32Decode(input); the characters base32Encode writes are their own
\* upper case
base32Decode(input) ==
  LET st == DecodeLoop(StripPadding(input), 1,
                       [value |-> Zero32, bits |-> 0, bytes |-> <<>>,
                        error |-> "none"])
  IN [bytes |-> st.bytes, error |-> st.error, done |-> TRUE]

Base32Init ==
  /\ buffer = <<>>
  /\ encoded = <<>>
  /\ decoded = NotDecoded

\* one more byte in the buffer to encode
NextByte(b) ==
  /\ Len(buffer) < MaxBytes
  /\ buffer' = Append(buffer, b)
  /\ encoded' = <<>>
  /\ decoded' = NotDecoded
  /\ UNCHANGED notBase32Vars

Base32Encode ==
  /\ encoded' = base32Encode(buffer)
  /\ decoded' = NotDecoded
  /\ UNCHANGED buffer
  /\ UNCHANGED notBase32Vars

Base32Decode ==
  /\ encoded = base32Encode(buffer)
  /\ decoded' = base32Decode(encoded)
  /\ UNCHANGED <<buffer, encoded>>
  /\ UNCHANGED notBase32Vars

\* a new buffer
Base32Reset ==
  /\ buffer # <<>>
  /\ buffer' = <<>>
  /\ encoded' = <<>>
  /\ decoded' = NotDecoded
  /\ UNCHANGED notBase32Vars

Base32Next ==
  \/ \E b \in ByteValues : NextByte(b)
  \/ Base32Encode
  \/ Base32Decode
  \/ Base32Reset

\* ------------------------------------------------------------ portal 2FA
\* mutant: no module is ever available
getAvailableModules_None(mods, devices) == <<>>

\* getAvailableModules(session).map((m) => m.prefix): "TypeError" when
\* deviceList.some is no function
getAvailableModules(mods, devices) ==
  IF devices.kind \in {"undefined", "emptyString", "invalidJSON"} THEN <<>>
  ELSE IF mods = {} THEN <<>>
  ELSE IF devices.value.type # "array" THEN <<"TypeError">>
  ELSE IF \E i \in 1..Len(devices.value.items) :
            devices.value.items[i] \in mods
       THEN <<PrefixOf("TOTP")>>
       ELSE <<>>

\* getModule(prefix): this.modules.get(prefix)
getModule(mods, prefix) ==
  IF \E m \in mods : PrefixOf(m) = prefix THEN prefix ELSE "none"

\* TOTP2F.getDevices(session): the TOTP devices of sessionInfo._2fDevices
HasTOTPDevice(devices) ==
  /\ devices.kind \in {"json", "array"}
  /\ devices.value.type = "array"
  /\ \E i \in 1..Len(devices.value.items) : devices.value.items[i] = "TOTP"

\* mutant: a submitted code is accepted without a registered device
verify_NoDevice(devices, code) == code = "right"

\* TOTP2F.verify(req, sessionInfo): success only for a code that is present
\* and that verifyCode accepts for a registered device
verify(devices, code) == HasTOTPDevice(devices) /\ code = "right"

\* the rest of the pending state that this.pendingStore[token] yields
InfoOf(session) ==
  IF session.kind = "own" THEN pendingInfo[session.token] ELSE NoInfo

Contains(seq, x) == \E i \in 1..Len(seq) : seq[i] = x

\* one more session created with the pending token of the request
Counted(token) ==
  [sessionsOf EXCEPT ![token] = IF @ < 2 THEN @ + 1 ELSE @]

\* a request is handled in the first slot that holds no request in flight
FreeSlot(r) ==
  /\ req[r].pc = "done"
  /\ \A q \in Requests : q < r => req[q].pc # "done"

PortalInit ==
  /\ req = [r \in Requests |-> NoRequest]
  /\ answered = NoRequest
  /\ pendingInfo = [t \in PendingTokens |-> NoInfo]
  /\ sessionsOf = [t \in TokenArgs |-> 0]

\* request r goes on as y; a request that is answered leaves its slot, and
\* what became of it is kept until the next answer
Conclude(r, y) ==
  /\ req' = [req EXCEPT ![r] = IF y.pc = "done" THEN NoRequest ELSE y]
  /\ answered' = IF y.pc = "done" THEN y ELSE answered

\* POST / after the authentication middlewares, for a request without a
\* session: up to the response, or to the await of portal.createSession
Login(r, success, userData, has2FA, devices) ==
  /\ FreeSlot(r)
  /\ LET required == IF has2FA THEN is2FARequired(modules, devices) ELSE "false"
         available == getAvailableModules(modules, devices)
         token == CHOOSE t \in LoginTokens :
                    /\ made[t].life = "never"
                    /\ \A j \in LoginTokens : j < t => made[j].life # "never"
         failed == [NoRequest EXCEPT !.route = "login"]
         base == [failed EXCEPT !.required = required]
     IN
       IF ~success
       THEN /\ Conclude(r, [failed EXCEPT !.status = "login form"])
            /\ UNCHANGED <<pendingStore, timers, made, pendingInfo>>
       ELSE IF ~userData
       THEN /\ Conclude(r, [failed EXCEPT !.status = "500"])
            /\ UNCHANGED <<pendingStore, timers, made, pendingInfo>>
       ELSE IF required = "TypeError"
       THEN /\ Conclude(r, [base EXCEPT !.status = "thrown"])
            /\ UNCHANGED <<pendingStore, timers, made, pendingInfo>>
       ELSE IF required = "true" /\ Len(available) > 0
       THEN /\ \E t \in LoginTokens : made[t].life = "never"
            /\ pendingStore' = createPendingSession(pendingStore, token, clock)
            /\ timers' = timers \cup
                            {[token |-> token, due |-> clock + pendingTimeout]}
            /\ made' = [made EXCEPT ![token] =
                          [life |-> "live", timestamp |-> clock]]
            /\ pendingInfo' = [pendingInfo EXCEPT ![token] =
                                 PendingInfo(devices, available)]
            /\ Conclude(r, [base EXCEPT !.status = "redirect /2fa",
                                        !.location = token])
       ELSE /\ Conclude(r, [base EXCEPT !.pc = "createSession"])
            /\ UNCHANGED <<pendingStore, timers, made, pendingInfo>>
  /\ UNCHANGED <<clock, modules, sfRet, sessionsOf>>
  /\ UNCHANGED notLoginVars

\* portal.createSession and portal.updateSession have returned: the session
\* exists, the session cookie is set and the response sent
SessionCreated(r) ==
  /\ req[r].pc = "createSession"
  /\ Conclude(r, [req[r] EXCEPT !.pc = "done", !.created = TRUE,
                                !.cookie = TRUE, !.status = "menu"])
  /\ sessionsOf' = IF req[r].route = "post2fa" THEN Counted(req[r].token)
                    ELSE sessionsOf
  /\ UNCHANGED <<pendingInfo, twoFactorVars>>
  /\ UNCHANGED notLoginVars

\* GET /2fa/:type
Get2FA(r, type, token) ==
  /\ FreeSlot(r)
  /\ LET base == [NoRequest EXCEPT !.route = "get2fa", !.token = token]
     IN
       IF token = NoToken
       THEN /\ Conclude(r, [base EXCEPT !.status = "redirect portal"])
            /\ UNCHANGED pendingStore
       ELSE LET got == getPendingSession(pendingStore, token, clock)
                pending == got.result
                module == getModule(modules, type)
                info == InfoOf(pending)
                looked == [base EXCEPT
                             !.live = pending # NullPending
                                        /\ pending = Entitled(token)]
            IN /\ pendingStore' = got.store
               /\ Conclude(r,
                    IF pending = NullPending
                    THEN [looked EXCEPT !.status = "redirect portal"]
                    ELSE IF module = "none"
                    THEN [looked EXCEPT !.status = "redirect /2fa",
                                        !.location = token]
                    ELSE [looked EXCEPT
                            !.ran = module,
                            !.listed = Contains(info.availableModules, module),
                            !.status = IF HasTOTPDevice(info.devices)
                                       THEN "challenge" ELSE "500"])
  /\ UNCHANGED <<clock, modules, timers, made, sfRet, pendingInfo, sessionsOf>>
  /\ UNCHANGED notLoginVars

\* POST /2fa/:type, up to the response or to the await of verify; the module
\* has the submitted code and the devices of the pending state by then
Post2FA(r, type, token, code) ==
  /\ FreeSlot(r)
  /\ LET base == [NoRequest EXCEPT !.route = "post2fa", !.token = token]
     IN
       IF token = NoToken
       THEN /\ Conclude(r, [base EXCEPT !.status = "redirect portal"])
            /\ UNCHANGED pendingStore
       ELSE LET got == getPendingSession(pendingStore, token, clock)
                pending == got.result
                module == getModule(modules, type)
                info == InfoOf(pending)
                looked == [base EXCEPT
                             !.live = pending # NullPending
                                        /\ pending = Entitled(token)]
            IN /\ pendingStore' = got.store
               /\ Conclude(r,
                    IF pending = NullPending
                    THEN [looked EXCEPT !.status = "401"]
                    ELSE IF module = "none"
                    THEN [looked EXCEPT !.status = "redirect /2fa",
                                        !.location = token]
                    ELSE [looked EXCEPT
                            !.pc = "verify",
                            !.ran = module,
                            !.listed = Contains(info.availableModules, module),
                            !.valid = verify(info.devices, code)])
  /\ UNCHANGED <<clock, modules, timers, made, sfRet, pendingInfo, sessionsOf>>
  /\ UNCHANGED notLoginVars

\* the promise of verify has settled, other requests having been handled
\* since it was awaited: on failure the challenge is shown again; on success
\* the pending session is deleted and portal.createSession awaited
Verified(r) ==
  /\ req[r].pc = "verify"
  /\ IF req[r].valid
     THEN /\ pendingStore' = deletePendingSession(pendingStore, req[r].token)
          /\ made' = IF req[r].token \in PendingTokens
                         /\ made[req[r].token].life = "live"
                      THEN [made EXCEPT ![req[r].token].life = "deleted"]
                      ELSE made
          /\ Conclude(r, [req[r] EXCEPT !.pc = "createSession",
                                        !.verified = "success"])
     ELSE /\ UNCHANGED <<pendingStore, made>>
          /\ Conclude(r, [req[r] EXCEPT
                          !.pc = "done", !.verified = "failure",
                          !.status =
                            IF req[r].token \in PendingTokens
                               /\ HasTOTPDevice(pendingInfo[req[r].token].devices)
                            THEN "challenge" ELSE "500"])
  /\ UNCHANGED <<clock, modules, timers, sfRet, pendingInfo, sessionsOf>>
  /\ UNCHANGED notLoginVars

PortalNext ==
  \/ \E activation \in BOOLEAN : InitModules(activation)
  \/ \E r \in Requests, success, userData, has2FA \in BOOLEAN,
        devices \in LoginDevices : Login(r, success, userData, has2FA, devices)
  \/ \E r \in Requests : SessionCreated(r)
  \/ \E r \in Requests, type \in TypeParams, token \in SubmittedTokens :
       Get2FA(r, type, token)
  \/ \E r \in Requests, type \in TypeParams, token \in SubmittedTokens,
        code \in Codes : Post2FA(r, type, token, code)
  \/ \E r \in Requests : Verified(r)
  \/ \E tm \in timers : PendingTimer(tm)
  \/ \E d \in PortalDelays : Elapse(d)

\* ------------------------------------------------------------------ TOTP
\* getDevicesByType(session, type)
getDevicesByType(session, type) ==
  SelectSeq(getDevices(session), LAMBDA d : d.type = type)

\* mutant: no device is ever too old
removeExpiredDevices_Never(session, type, ttl, time) == session

\* removeExpiredDevices(session, type, ttl): session._2fDevices afterwards
removeExpiredDevices(session, type, ttl, time) ==
  IF ttl <= 0 THEN session
  ELSE LET devices == getDevices(session)
           filtered == SelectSeq(devices,
                         LAMBDA d : ~(d.type = type /\ time - d.epoch > ttl))
       IN IF Len(filtered) = Len(devices) THEN session
          ELSE serializeDevices(filtered)

\* TOTP2F.getDevices(session): [the TOTP devices, session._2fDevices afterwards]
TOTP2F_getDevices(session, ttl, time) ==
  LET after == IF ttl # Undefined /\ ttl # 0 /\ ttl > 0
               THEN removeExpiredDevices(session, "TOTP", ttl, time)
               ELSE session
  IN [devices |-> getDevicesByType(after, "TOTP"), session |-> after]

\* verifyCode(secret, code).valid: the code is the one the secret yields
verifyCode(secret, code) == secret = code

\* the loop of TOTP2F.verify over the devices from position i on
RECURSIVE TryDevices(_, _, _)
TryDevices(devices, code, i) ==
  IF i > Len(devices) THEN [success |-> FALSE, device |-> NoDevice]
  ELSE IF devices[i].secret = "none" THEN TryDevices(devices, code, i + 1)
  ELSE IF verifyCode(devices[i].secret, code)
       THEN [success |-> TRUE, device |-> devices[i]]
       ELSE TryDevices(devices, code, i + 1)

\* TOTP2F.verify(req, session): [success, device, session._2fDevices afterwards]
TOTP2F_verify(code, session, ttl, time) ==
  IF code = "none"
  THEN [success |-> FALSE, device |-> NoDevice, session |-> session]
  ELSE LET got == TOTP2F_getDevices(session, ttl, time)
           tried == TryDevices(got.devices, code, 1)
       IN IF Len(got.devices) = 0
          THEN [success |-> FALSE, device |-> NoDevice, session |-> got.session]
          ELSE [success |-> tried.success, device |-> tried.device,
                session |-> got.session]

TotpInit ==
  /\ totpSession = [kind |-> "undefined", items |-> <<>>]
  /\ totpTtl = Undefined
  /\ totpNow = 0
  /\ totpRet = [op |-> "none"]

\* TOTP2F.init(config), and the session of a user handed to the module
TotpLoad(stored, ttl) ==
  /\ totpRet.op = "none"
  /\ totpSession' = stored
  /\ totpTtl' = ttl
  /\ totpRet' = [op |-> "load"]
  /\ UNCHANGED totpNow
  /\ UNCHANGED notTotpVars

\* a second passes
TotpTick ==
  /\ totpNow < MaxNow
  /\ totpNow' = totpNow + 1
  /\ UNCHANGED <<totpSession, totpTtl, totpRet>>
  /\ UNCHANGED notTotpVars

TotpVerify(code) ==
  /\ LET r == TOTP2F_verify(code, totpSession, totpTtl, totpNow) IN
       /\ totpSession' = r.session
       /\ totpRet' = [op |-> "verify", code |-> code, success |-> r.success,
                      device |-> r.device, before |-> totpSession,
                      at |-> totpNow]
  /\ UNCHANGED <<totpTtl, totpNow>>
  /\ UNCHANGED notTotpVars

TotpNext ==
  \/ \E stored \in TotpSessions, ttl \in Ttls : TotpLoad(stored, ttl)
  \/ TotpTick
  \/ \E code \in TotpCodes : TotpVerify(code)

\* ----------------------------------------------------- TOTP registration
\* addDevice(session, device): session._2fDevices afterwards
addDevice(session, device) ==
  serializeDevices(Append(getDevices(session), device))

\* the device that verifyRegistration builds from the secret of the token
NewDevice(secret, time) ==
  SecretDevice("TOTP", time \div 1000, secret)

\* mutant: a code that is wrong is accepted as well
Accepted_AnyCode(secret, code) == TRUE

\* verifyCode(secret, code).valid for the secret 1..NumValues of a token
Accepted(secret, code) == secret = code

RegisterInit ==
  /\ regCall = [c \in Requests |-> NoRegCall]
  /\ regSession = [kind |-> "undefined", items |-> <<>>]
  /\ regRet = [op |-> "none"]

\* the session of the user is read from the session store
RegLoad(stored) ==
  /\ regRet.op = "none"
  /\ regSession' = stored
  /\ regRet' = [op |-> "load"]
  /\ UNCHANGED <<regCall, tokenVars>>
  /\ UNCHANGED notRegVars

\* getRegistrationData(req, session): a token is created for a new secret
GetRegistrationData(secret) ==
  /\ \E id \in TokenIds :
       /\ issued[id].life = "never"
       /\ \A j \in TokenIds : j < id => issued[j].life # "never"
       /\ tokens' = createToken(tokens, id, secret, Undefined, now)
       /\ issued' = [issued EXCEPT ![id] =
                       [life |-> "live", due |-> tokens'[id].expires]]
       /\ regRet' = [op |-> "getRegistrationData", token |-> id]
  /\ UNCHANGED <<now, tokRet, regCall, regSession>>
  /\ UNCHANGED notRegVars

\* verifyRegistration(req, session, token) up to the await of getToken
VerifyRegistration(c, id, code) ==
  /\ regCall[c].pc = "idle"
  /\ \A q \in Requests : q < c => regCall[q].pc # "idle"
  /\ IF code = NoCode
     THEN /\ regRet' = [op |-> "verifyRegistration", token |-> id,
                        code |-> code, success |-> FALSE,
                        error |-> "No verification code provided",
                        tokenData |-> Null]
          /\ UNCHANGED <<tokens, regCall>>
     ELSE LET r == getToken(tokens, id, TRUE, now) IN
            /\ tokens' = r.tokens
            /\ regCall' = [regCall EXCEPT ![c] =
                             [pc |-> "getToken", token |-> id, code |-> code,
                              tokenData |-> r.result]]
            /\ UNCHANGED regRet
  /\ UNCHANGED <<now, issued, tokRet, regSession>>
  /\ UNCHANGED notRegVars

\* getToken has returned: the code is verified against the secret of the
\* token, and on success deleteToken is awaited
VR_GotToken(c) ==
  /\ regCall[c].pc = "getToken"
  /\ LET call == regCall[c]
         failure(error) ==
           [op |-> "verifyRegistration", token |-> call.token,
            code |-> call.code, success |-> FALSE, error |-> error,
            tokenData |-> call.tokenData]
     IN
       IF call.tokenData = Null
       THEN /\ regRet' = failure("Registration token expired or invalid")
            /\ regCall' = [regCall EXCEPT ![c] = NoRegCall]
            /\ UNCHANGED <<tokens, issued>>
       ELSE IF ~Accepted(call.tokenData, call.code)
       THEN /\ regRet' = failure("Invalid TOTP code")
            /\ regCall' = [regCall EXCEPT ![c] = NoRegCall]
            /\ UNCHANGED <<tokens, issued>>
       ELSE /\ tokens' = deleteToken(tokens, call.token)
            /\ issued' = IF issued[call.token].life = "never" THEN issued
                          ELSE [issued EXCEPT ![call.token].life = "deleted"]
            /\ regCall' = [regCall EXCEPT ![c].pc = "deleteToken"]
            /\ UNCHANGED regRet
  /\ UNCHANGED <<now, tokRet, regSession>>
  /\ UNCHANGED notRegVars

\* deleteToken has returned: the device is built and registered
VR_Register(c) ==
  /\ regCall[c].pc = "deleteToken"
  /\ regSession' = addDevice(regSession,
                              NewDevice(regCall[c].tokenData, now))
  /\ regRet' = [op |-> "verifyRegistration", token |-> regCall[c].token,
                 code |-> regCall[c].code, success |-> TRUE,
                 error |-> "none", tokenData |-> regCall[c].tokenData]
  /\ regCall' = [regCall EXCEPT ![c] = NoRegCall]
  /\ UNCHANGED tokenVars
  /\ UNCHANGED notRegVars

\* time passes
RegAdvance(d) ==
  /\ Ticks(now) < MaxTicks
  /\ now' = now + d
  /\ UNCHANGED <<tokens, issued, tokRet, registerVars>>
  /\ UNCHANGED notRegVars

RegisterNext ==
  \/ \E stored \in RegSessions : RegLoad(stored)
  \/ \E secret \in Values : GetRegistrationData(secret)
  \/ \E c \in Requests, id \in TokenIds, code \in RegCodes :
       VerifyRegistration(c, id, code)
  \/ \E c \in Requests : VR_GotToken(c)
  \/ \E c \in Requests : VR_Register(c)
  \/ \E d \in RegDelays : RegAdvance(d)

\* ------------------------------------------------------------ CDA plugin
\* host.endsWith(domain.toLowerCase()) for the hosts and domains drawn
EndsWithDomain(host, domain) ==
  domain = ".example.com" /\ host \in {"app.example.com", "auth.example.com"}

\* domain.replace(/^\./, "") for the domains drawn
WithoutDot(domain) == IF domain = ".example.com" THEN "example.com" ELSE domain

\* new URL(portal).hostname, "throws" when portal is no URL
PortalHostname(portal) ==
  IF portal = "http://auth.example.com" THEN "auth.example.com" ELSE "throws"

\* urlIsExternal(portal, urldc)
urlIsExternal(conf, urldc) ==
  IF urldc.scheme = "none" THEN FALSE
  ELSE IF conf.domain # ""
  THEN IF urldc.host = WithoutDot(conf.domain) THEN FALSE
       ELSE IF EndsWithDomain(urldc.host, conf.domain) THEN FALSE
       ELSE TRUE
  ELSE IF PortalHostname(conf.portal) = "throws" THEN TRUE
  ELSE urldc.host # PortalHostname(conf.portal)

\* isTrustedUrl(urldc)
isTrustedUrl(urldc) == urldc.scheme # "none"

\* urldc.startsWith("https")
StartsWithHttps(urldc) == urldc.scheme = "https"

\* mutant: the main session id is handed out whatever securedCookie says
cookieFor_Main(conf, ssl, sessionId, httpSession) ==
  [error |-> FALSE, cookie_value |-> sessionId, cookie_name |-> conf.cookieName]

\* the cookie value and name that changeUrldc puts into the CDA session
cookieFor(conf, ssl, sessionId, httpSession) ==
  IF conf.securedCookie >= 2 /\ ~ssl
  THEN IF httpSession # ""
       THEN [error |-> FALSE, cookie_value |-> httpSession,
             cookie_name |-> conf.cookieName \o "http"]
       ELSE [error |-> TRUE, cookie_value |-> "", cookie_name |-> ""]
  ELSE [error |-> FALSE, cookie_value |-> sessionId,
        cookie_name |-> conf.cookieName]

\* changeUrldc(req) with sessionAcc.update ending as answer, for the CDA id
\* that generateCDASessionId returns: [code, handed to update, stored,
\* req.llngUrldc afterwards]
changeUrldc(conf, llngUrldc, bodyUrl, llngSessionId, session_id, httpSession, id, answer) ==
  LET urldc == IF llngUrldc # NoUrl THEN llngUrldc ELSE bodyUrl
      sessionId == IF llngSessionId # "" THEN llngSessionId ELSE session_id
      before == Urldc(llngUrldc, "", NoCda)
      skipped == [code |-> PE_OK, infos |-> NoCdaInfos, stored |-> FALSE,
                  llngUrldc |-> before]
      cookie == cookieFor(conf, StartsWithHttps(urldc), sessionId, httpSession)
      infos == [cookie_value |-> cookie.cookie_value,
                cookie_name |-> cookie.cookie_name, id |-> id]
  IN IF sessionId = "" THEN skipped
     ELSE IF ~urlIsExternal(conf, urldc) THEN skipped
     ELSE IF ~isTrustedUrl(urldc) THEN skipped
     ELSE IF cookie.error THEN [skipped EXCEPT !.code = PE_ERROR]
     ELSE IF answer = "throws"
     THEN [skipped EXCEPT !.infos = infos]
     ELSE [code |-> PE_OK, infos |-> infos, stored |-> answer = "true",
           llngUrldc |-> Urldc(urldc, IF urldc.query THEN "&" ELSE "?", id)]

CdaInit ==
  /\ cdaConf = [cookieName |-> "lemonldap", securedCookie |-> 0,
                domain |-> "", portal |-> "/", ready |-> FALSE]
  /\ cdaStore = {}
  /\ cdaRet = [op |-> "none"]

\* onInit(): reads cookieName, securedCookie and domain; portal is read at
\* each call from the same configuration
CDA_onInit(securedCookie, domain, portal) ==
  /\ ~cdaConf.ready
  /\ cdaConf' = [cookieName |-> "lemonldap", securedCookie |-> securedCookie,
                 domain |-> domain, portal |-> portal, ready |-> TRUE]
  /\ cdaRet' = [op |-> "onInit"]
  /\ UNCHANGED cdaStore
  /\ UNCHANGED notCdaVars

\* endAuth(req) or forAuthUser(req): changeUrldc(req)
ChangeUrldc(llngUrldc, bodyUrl, llngSessionId, session_id, httpSession, answer) ==
  /\ cdaConf.ready
  /\ \E id \in CdaIds :
       /\ \A x \in cdaStore : x.id # id
       /\ \A j \in CdaIds : j < id => \E x \in cdaStore : x.id = j
       /\ LET r == changeUrldc(cdaConf, llngUrldc, bodyUrl, llngSessionId,
                               session_id, httpSession, id, answer)
          IN /\ cdaStore' = IF r.stored THEN cdaStore \cup {r.infos}
                             ELSE cdaStore
             /\ cdaRet' = [op |-> "changeUrldc",
                           urldc |-> IF llngUrldc # NoUrl THEN llngUrldc
                                     ELSE bodyUrl,
                           before |-> Urldc(llngUrldc, "", NoCda),
                           sessionId |-> IF llngSessionId # ""
                                         THEN llngSessionId ELSE session_id,
                           httpSession |-> httpSession,
                           answer |-> answer, code |-> r.code,
                           infos |-> r.infos, stored |-> r.stored,
                           llngUrldc |-> r.llngUrldc]
  /\ UNCHANGED cdaConf
  /\ UNCHANGED notCdaVars

\* a CDA session is redeemed or expires
CdaExpire(x) ==
  /\ x \in cdaStore
  /\ \A y \in cdaStore : y.id <= x.id
  /\ cdaStore' = cdaStore \ {x}
  /\ UNCHANGED <<cdaConf, cdaRet>>
  /\ UNCHANGED notCdaVars

CdaNext ==
  \/ \E securedCookie \in SecuredCookies, domain \in Domains,
        portal \in Portals : CDA_onInit(securedCookie, domain, portal)
  \/ \E llngUrldc \in Urls \cup {NoUrl}, bodyUrl \in BodyUrls,
        r \in CdaRequests, answer \in UpdateOutcomes :
       ChangeUrldc(llngUrldc, bodyUrl, r.llngSessionId, r.session_id,
                   r.httpSession, answer)
  \/ \E x \in cdaStore : CdaExpire(x)

\* ------------------------------------------------------------------- state
\* the router as createSAMLIssuerRouter returns it, nothing recorded yet
RouterInit ==
  /\ requireAuth \in BOOLEAN
  /\ providerSessions = [s \in Sessions |-> <<>>]
  /\ walk = [s \in Sessions |-> NoWalk]
  /\ exch = [e \in Exchanges |-> Idle]
  /\ finished = Idle
  /\ built = [s \in Sessions |-> {}]
  /\ hist = [s \in Sessions |-> NoHistory]

\* the issuer serves requests once the Server Manager has been configured
Init ==
  /\ RouterInit
  /\ handle = Configured
  /\ outcome = NoCall
  /\ TokenInit
  /\ TwoFactorInit
  /\ PluginInit
  /\ LassoInit
  /\ DeviceInit
  /\ Base32Init
  /\ PortalInit
  /\ TotpInit
  /\ RegisterInit
  /\ CdaInit

\* exchange e becomes y; an answered exchange is over and frees its place
Settle(e, y) ==
  /\ exch' = [exch EXCEPT ![e] = IF y.pc = "done" THEN Idle ELSE y]
  /\ finished' = IF y.pc = "done" THEN y ELSE Idle

\* a request is taken by the first free exchange
Free(e) ==
  /\ finished = Idle
  /\ exch[e].pc = "idle"
  /\ \A f \in Exchanges : f < e => exch[f].pc # "idle"

\* ------------------------------------------------------------ /singleSignOn
SingleSignOn(e) ==
  /\ Free(e)
  /\ Settle(e, [Idle EXCEPT !.route = "sso", !.pc = "processAuthnRequest"])
  /\ UNCHANGED <<requireAuth, providerSessions, walk, built, hist>>
  /\ UNCHANGED notRouterVars

SSO_ProcessAuthnRequest(e) ==
  /\ finished = Idle
  /\ exch[e].pc = "processAuthnRequest"
  /\ \E msg \in Messages, lookup \in Lookups :
       LET ctx == processAuthnRequest(msg)
           x == Tag(exch[e],
                    (IF ctx.ok THEN {} ELSE {"authnFailed"})
                      \cup (IF msg.valid /\ msg.sp \notin KnownSPs
                            THEN {"unknownIssuer"} ELSE {}))
       IN Settle(e, singleSignOn_Context(x, ctx, lookup, requireAuth))
  /\ UNCHANGED <<requireAuth, providerSessions, walk, built, hist>>
  /\ UNCHANGED notRouterVars

SSO_GetSessionData(e) ==
  /\ finished = Idle
  /\ exch[e].pc = "getSessionData"
  /\ \E session \in SessionData :
       Settle(e, singleSignOn_Session(exch[e], session, requireAuth))
  /\ UNCHANGED <<requireAuth, providerSessions, walk, built, hist>>
  /\ UNCHANGED notRouterVars

SSO_BuildSAMLResponse(e) ==
  /\ finished = Idle
  /\ exch[e].pc = "buildSAMLResponse"
  /\ \E toolkitOk \in BOOLEAN, instr \in Instructions, n \in NameIds :
       LET r == buildSAMLResponse(providerSessions[exch[e].sid], exch[e].sp,
                                  n, toolkitOk, instr)
           x == Tag(exch[e],
                    (IF r.ok THEN {} ELSE {"buildFailed"})
                      \cup (IF r.recorded THEN {"recorded"} ELSE {}))
       IN /\ providerSessions' = [providerSessions EXCEPT ![x.sid] = r.ps]
          /\ built' = [built EXCEPT ![x.sid] =
                         IF r.ok THEN @ \cup {x.sp} ELSE @]
          /\ Settle(e, singleSignOn_Response(x, r))
  /\ UNCHANGED <<requireAuth, walk, hist>>
  /\ UNCHANGED notRouterVars

\* ------------------------------------------------------------ /singleLogout
SingleLogout(e) ==
  /\ Free(e)
  /\ Settle(e, [Idle EXCEPT !.route = "slo", !.pc = "processLogoutRequest"])
  /\ UNCHANGED <<requireAuth, providerSessions, walk, built, hist>>
  /\ UNCHANGED notRouterVars

\* processLogoutRequest of exchange e settles for the message msg, which refers
\* to the local session target, on a request whose session lookup gives lookup;
\* a LogoutResponse confirms the logout of its SP: completeProvider
ProcessLogoutMessage(e, msg, isRequest, target, lookup) ==
  LET ctx == processLogoutRequest(msg, isRequest)
      x == singleLogout_Context(
             Tag(exch[e], IF ctx.ok THEN {} ELSE {"logoutFailed"}),
             ctx, target, lookup)
      confirmed == ctx.ok /\ ~ctx.isRequest
      racing == IF x.pc = "initiateLogout" THEN Waiting(x.sid) ELSE {}
  IN /\ providerSessions' =
          IF confirmed
          THEN [providerSessions EXCEPT
                  ![target] = completeProvider(@, ctx.sp)]
          ELSE providerSessions
     /\ built' = IF confirmed
                 THEN [built EXCEPT ![target] = @ \ {ctx.sp}]
                 ELSE built
     /\ exch' = [f \in Exchanges |->
                   IF f = e
                   THEN IF x.pc = "done" THEN Idle
                        ELSE IF racing # {} THEN Tag(x, {"raced"})
                        ELSE x
                   ELSE IF f \in racing THEN Tag(exch[f], {"raced"})
                   ELSE exch[f]]
     /\ finished' = IF x.pc = "done" THEN x ELSE Idle
     /\ UNCHANGED <<requireAuth, walk, hist>>
     /\ UNCHANGED notRouterVars

SLO_ProcessLogoutRequest(e) ==
  /\ finished = Idle
  /\ exch[e].pc = "processLogoutRequest"
  /\ \E msg \in Messages, isRequest \in BOOLEAN, target \in Sessions,
        lookup \in Lookups :
       ProcessLogoutMessage(e, msg, isRequest, target, lookup)

\* the ProviderSession is removed, then the signed LogoutResponse is built
SLO_BuildLogoutResponse(e) ==
  /\ finished = Idle
  /\ exch[e].pc = "buildLogoutResponse"
  /\ \E toolkitOk \in BOOLEAN, instr \in Instructions :
       LET x == Tag(exch[e], IF toolkitOk THEN {} ELSE {"buildFailed"}) IN
       /\ providerSessions' = [providerSessions EXCEPT
                                 ![x.target] = completeProvider(@, x.sp)]
       /\ built' = [built EXCEPT ![x.target] = @ \ {x.sp}]
       /\ Settle(e, singleLogout_Response(x, toolkitOk, instr))
  /\ UNCHANGED <<requireAuth, walk, hist>>
  /\ UNCHANGED notRouterVars

SLO_InitiateLogout(e) ==
  /\ finished = Idle
  /\ exch[e].pc = "initiateLogout"
  /\ \E instr \in Instructions :
       LET x == exch[e]
           r == initiateLogout(walk[x.sid])
       IN /\ walk' = [walk EXCEPT ![x.sid] = r.walk]
          /\ hist' = [hist EXCEPT ![x.sid] =
                        [Called(@, r.to) EXCEPT !.raced =
                           IF "raced" \in x.tags /\ r.to # NoSP
                                /\ Len(@) < MaxResults
                           THEN Append(@, r.to) ELSE @]]
          /\ Settle(e, singleLogout_Next(x, r.to, instr))
  /\ UNCHANGED <<requireAuth, providerSessions, built>>
  /\ UNCHANGED notRouterVars

\* -------------------------------------------------------- /singleLogoutSOAP
SingleLogoutSOAP(e) ==
  /\ Free(e)
  /\ \E body \in RequestBodies, lookup \in Lookups :
       LET x == Tag([Idle EXCEPT !.route = "soap"],
                    IF body.type # "string" THEN {"missingBody"}
                    ELSE IF body.text = "" THEN {"emptyBody"} ELSE {})
       IN Settle(e, singleLogoutSOAP_Start(x, body, lookup))
  /\ UNCHANGED <<requireAuth, providerSessions, walk, built, hist>>
  /\ UNCHANGED notRouterVars

SOAP_ProcessSoapLogout(e) ==
  /\ finished = Idle
  /\ exch[e].pc = "processSoapLogout"
  /\ \E msg \in Messages, raises \in BOOLEAN, target \in Sessions :
       LET s == IF exch[e].sid # NoSession THEN exch[e].sid ELSE target
           r == processSoapLogout(providerSessions[s], exch[e].env, msg, raises)
           x == Tag(exch[e], IF r.raised THEN {"soapRaised"} ELSE {})
       IN /\ providerSessions' = [providerSessions EXCEPT ![s] = r.ps]
          /\ built' = [built EXCEPT ![s] =
                         IF r.xml = "LogoutResponse" THEN @ \ {msg.sp} ELSE @]
          /\ Settle(e, singleLogoutSOAP_Result(x, r))
  /\ UNCHANGED <<requireAuth, walk, hist>>
  /\ UNCHANGED notRouterVars

\* ------------------------------------------------------ local session, SLO
\* the local session s is destroyed outright, its ProviderSessions with it
DestroySession(s) ==
  /\ finished = Idle
  /\ providerSessions' = [providerSessions EXCEPT ![s] = <<>>]
  /\ walk' = [walk EXCEPT ![s] = NoWalk]
  /\ built' = [built EXCEPT ![s] = {}]
  /\ hist' = [hist EXCEPT ![s] = NoHistory]
  /\ finished' = Idle
  /\ UNCHANGED <<requireAuth, exch>>
  /\ UNCHANGED notRouterVars

\* the portal starts the SLO walk of session s
StartLogoutWalk(s, origin) ==
  /\ finished = Idle
  /\ walk' = [walk EXCEPT ![s] = startLogoutWalk(providerSessions[s], origin)]
  /\ hist' = [hist EXCEPT ![s] =
                [expected |-> SelectSeq(SPsOf(providerSessions[s]),
                                        LAMBDA sp : sp # origin),
                 results |-> <<>>, raced |-> <<>>]]
  /\ finished' = Idle
  /\ UNCHANGED <<requireAuth, providerSessions, exch, built>>
  /\ UNCHANGED notRouterVars

\* the portal calls initiateLogout(s) itself, to notify the first provider
InitiateLogout(s) ==
  /\ finished = Idle
  /\ Len(hist[s].results) < MaxResults
  /\ LET r == initiateLogout(walk[s]) IN
       /\ walk' = [walk EXCEPT ![s] = r.walk]
       /\ hist' = [hist EXCEPT ![s] = Called(@, r.to)]
  /\ finished' = Idle
  /\ UNCHANGED <<requireAuth, providerSessions, exch, built>>
  /\ UNCHANGED notRouterVars

\* the answer has gone out: the handler has returned and the event loop takes
\* the next callback
EndExchange ==
  /\ finished # Idle
  /\ finished' = Idle
  /\ UNCHANGED <<requireAuth, providerSessions, walk, exch, built, hist>>
  /\ UNCHANGED notRouterVars

Next ==
  \/ \E e \in Exchanges : SingleSignOn(e)
  \/ \E e \in Exchanges : SSO_ProcessAuthnRequest(e)
  \/ \E e \in Exchanges : SSO_GetSessionData(e)
  \/ \E e \in Exchanges : SSO_BuildSAMLResponse(e)
  \/ \E e \in Exchanges : SingleLogout(e)
  \/ \E e \in Exchanges : SLO_ProcessLogoutRequest(e)
  \/ \E e \in Exchanges : SLO_BuildLogoutResponse(e)
  \/ \E e \in Exchanges : SLO_InitiateLogout(e)
  \/ \E e \in Exchanges : SingleLogoutSOAP(e)
  \/ \E e \in Exchanges : SOAP_ProcessSoapLogout(e)
  \/ \E s \in Sessions : DestroySession(s)
  \/ \E s \in Sessions, origin \in KnownSPs \cup {NoSP} : StartLogoutWalk(s, origin)
  \/ \E s \in Sessions : InitiateLogout(s)
  \/ EndExchange

Spec == Init /\ [][Next]_vars

\* the exchanges a state shows: those in flight and the one just answered
Shown == {exch[e] : e \in Exchanges} \cup {finished}

\* ---------------------------------------------------- a walk, end to end
\* The SLO walk with its environment: the portal starts the walk and notifies
\* the first provider; every notified SP answers with a LogoutResponse that
\* the user's browser, which carries the session, brings to /singleLogout.

\* the SPs that were sent a LogoutRequest for session s and have not answered
Owing(s) ==
  {sp \in KnownSPs :
     /\ \E i \in 1..Len(hist[s].results) : hist[s].results[i] = sp
     /\ HasProvider(providerSessions[s], sp)}

Quiet(s) == ~walk[s].active /\ Owing(s) = {}

\* a sign-on request arrives while no logout is under way
Walk_SingleSignOn(e) ==
  /\ \A s \in Sessions : Quiet(s)
  /\ \A f \in Exchanges : exch[f].route # "slo"
  /\ SingleSignOn(e)

\* the portal starts the walk of a session that is not being logged out
Walk_StartLogoutWalk(s, origin) ==
  /\ Quiet(s)
  /\ \A e \in Exchanges : exch[e].route # "slo"
  /\ StartLogoutWalk(s, origin)

\* the browser arrives at /singleLogout with the LogoutResponse of an SP
Walk_SingleLogout(e) ==
  /\ \E s \in Sessions :
       Cardinality({f \in Exchanges : exch[f].pc = "processLogoutRequest"})
         < Cardinality(Owing(s))
  /\ SingleLogout(e)

\* the LogoutResponse of a notified SP, on a request of the session's browser
Walk_LogoutResponse(e) ==
  /\ finished = Idle
  /\ exch[e].pc = "processLogoutRequest"
  /\ \E s \in Sessions : \E sp \in Owing(s) :
       ProcessLogoutMessage(e, [sp |-> sp, valid |-> TRUE], FALSE, s,
                            [raised |-> FALSE, id |-> s])

WalkNext ==
  \/ \E e \in Exchanges : Walk_SingleSignOn(e)
  \/ \E e \in Exchanges : SSO_ProcessAuthnRequest(e)
  \/ \E e \in Exchanges : SSO_GetSessionData(e)
  \/ \E e \in Exchanges : SSO_BuildSAMLResponse(e)
  \/ \E s \in Sessions, origin \in KnownSPs \cup {NoSP} :
       Walk_StartLogoutWalk(s, origin)
  \/ \E s \in Sessions : InitiateLogout(s)
  \/ \E e \in Exchanges : Walk_SingleLogout(e)
  \/ \E e \in Exchanges : Walk_LogoutResponse(e)
  \/ \E e \in Exchanges : SLO_InitiateLogout(e)
  \/ EndExchange

\* the event loop runs every callback that is ready, and every notified SP
\* answers: its LogoutResponse reaches /singleLogout however busy the router is
WalkFairness ==
  /\ \A e \in Exchanges : WF_vars(SSO_ProcessAuthnRequest(e))
  /\ \A e \in Exchanges : WF_vars(SSO_GetSessionData(e))
  /\ \A e \in Exchanges : WF_vars(SSO_BuildSAMLResponse(e))
  /\ \A e \in Exchanges : WF_vars(Walk_LogoutResponse(e))
  /\ \A e \in Exchanges : WF_vars(SLO_InitiateLogout(e))
  /\ WF_vars(EndExchange)
  /\ SF_vars(\E e \in Exchanges : Walk_SingleLogout(e))

WalkSpec == Init /\ [][WalkNext]_vars /\ WalkFairness

\* ------------------------------------------------------ the engine itself
\* The engine from its construction on: the Server Manager is configured, then
\* the operations of the Correlator and the issuer are called one at a time,
\* as the portal and the router call them, and GET /metadata is served.  A
\* ProviderSession may be of an SP that has left the trust configuration since
\* it was recorded.

Configure(valid) ==
  /\ finished = Idle
  /\ handle' = configure(handle, Configured, valid)
  /\ outcome' = [op |-> "configure", raised |-> ~valid, error |-> ""]
  /\ UNCHANGED routerVars
  /\ UNCHANGED notEngineVars

GetHandle ==
  /\ finished = Idle
  /\ outcome' = [op |-> "getHandle", raised |-> getHandle(handle).raised,
                 error |-> getHandle(handle).error]
  /\ UNCHANGED <<routerVars, handle>>
  /\ UNCHANGED notEngineVars

GetMetadata ==
  /\ finished = Idle
  /\ outcome' = [op |-> "getMetadata", raised |-> getMetadata(handle).raised,
                 error |-> getMetadata(handle).error]
  /\ UNCHANGED <<routerVars, handle>>
  /\ UNCHANGED notEngineVars

\* GET /metadata: a synchronous handler
Metadata ==
  /\ finished = Idle
  /\ finished' = metadata(getMetadata(handle))
  /\ UNCHANGED <<requireAuth, providerSessions, walk, exch, built, hist>>
  /\ UNCHANGED serverVars
  /\ UNCHANGED notEngineVars

RecordProviderSession(s, sp, nameId) ==
  /\ finished = Idle
  /\ ~getHandle(handle).raised
  /\ providerSessions' = [providerSessions EXCEPT
                            ![s] = recordProviderSession(@, sp, nameId)]
  /\ built' = [built EXCEPT ![s] = @ \cup {sp}]
  /\ outcome' = [op |-> "recordProviderSession", s |-> s, sp |-> sp,
                 nameId |-> nameId,
                 replaced |-> HasProvider(providerSessions[s], sp),
                 len |-> Len(providerSessions[s])]
  /\ UNCHANGED <<requireAuth, walk, exch, finished, hist, handle>>
  /\ UNCHANGED notEngineVars

CompleteProvider(s, sp) ==
  /\ finished = Idle
  /\ ~getHandle(handle).raised
  /\ providerSessions' = [providerSessions EXCEPT
                            ![s] = completeProvider(@, sp)]
  /\ built' = [built EXCEPT ![s] = @ \ {sp}]
  /\ outcome' = [op |-> "completeProvider"]
  /\ UNCHANGED <<requireAuth, walk, exch, finished, hist, handle>>
  /\ UNCHANGED notEngineVars

IssuerInit ==
  /\ RouterInit
  /\ handle = NoHandle
  /\ outcome = NoCall
  /\ TokenInit
  /\ TwoFactorInit
  /\ PluginInit
  /\ LassoInit
  /\ DeviceInit
  /\ Base32Init
  /\ PortalInit
  /\ TotpInit
  /\ RegisterInit
  /\ CdaInit

IssuerNext ==
  \/ \E valid \in BOOLEAN : Configure(valid)
  \/ GetHandle
  \/ GetMetadata
  \/ Metadata
  \/ \E s \in Sessions, sp \in AllSPs, n \in NameIds \cup {FreshNameId} :
       RecordProviderSession(s, sp, n)
  \/ \E s \in Sessions, sp \in AllSPs : CompleteProvider(s, sp)
  \/ \E s \in Sessions, origin \in KnownSPs \cup {NoSP} :
       StartLogoutWalk(s, origin)
  \/ \E s \in Sessions : InitiateLogout(s)
  \/ EndExchange

IssuerSpec == IssuerInit /\ [][IssuerNext]_vars

\* ------------------------------------------------------------------ claims

\* C1: for a local session whose walk was started over N recorded
\* ProviderSessions, the successive calls of initiateLogout return N
\* LogoutRequests, to pairwise different SPs, in the order in which the
\* ProviderSessions were recorded, and every later call returns None.
C1_FanOutFIFO ==
  \A s \in Sessions :
    LET h == hist[s] IN
    /\ \A i \in 1..Len(h.results) :
         h.results[i] = IF i <= Len(h.expected) THEN h.expected[i] ELSE NoSP
    /\ \A i, j \in 1..Len(h.expected) :
         i # j => h.expected[i] # h.expected[j]

\* a walk over every configured SP has been notified in full and the call
\* after the last LogoutRequest has returned None
C1_Witness ==
  \E s \in Sessions :
    /\ Len(hist[s].expected) = NumSPs
    /\ hist[s].results = Append(hist[s].expected, NoSP)

\* C2: a LogoutWalkState never holds a provider twice, and the providers
\* nextUnvisited has returned so far, followed by those still queued, are the
\* providers of the walk: each is returned exactly once.
C2_WalkVisitsOnce ==
  \A s \in Sessions :
    LET q == SPsOf(walk[s].queue)
        returned == SelectSeq(hist[s].results, LAMBDA sp : sp # NoSP)
    IN /\ \A i, j \in 1..Len(q) : i # j => q[i] # q[j]
       /\ returned \o q = hist[s].expected

\* a walk over two providers, one returned and one still queued
C2_Witness ==
  \E s \in Sessions :
    /\ walk[s].active
    /\ Len(walk[s].queue) = 1
    /\ Len(hist[s].expected) = 2
    /\ Len(hist[s].results) = 1

\* C3: a ProviderSession for SP X exists in a local session only if a
\* Response was built for X on that session and neither a LogoutResponse, a
\* LogoutRequest of X nor the destruction of the session has removed it since.
C3_ProviderSessionOnlyIfBuilt ==
  \A s \in Sessions :
    \A i \in 1..Len(providerSessions[s]) :
      providerSessions[s][i].sp \in built[s]

\* a Response has just been sent to an SP whose ProviderSession is thereby
\* recorded, after the ProviderSession of the other SP was removed again
C3_Witness ==
  \E s \in Sessions :
    /\ finished.route = "sso"
    /\ finished.resp # <<>>
    /\ finished.resp[1].body = "SAMLResponse"
    /\ SPsOf(providerSessions[s]) = <<finished.resp[1].to>>
    /\ hist[s].expected # <<>>
    /\ finished.resp[1].to \notin {hist[s].expected[i] :
                                     i \in 1..Len(hist[s].expected)}

C6_BuildOnlyWithSession ==
  \A x \in Shown :
    x.route = "sso" =>
      /\ "buildInvoked" \in x.tags =>
           /\ x.sid # NoSession
           /\ x.tags \cap {"noSessionId", "nullSession"} = {}
      /\ (x.pc = "done" /\ x.tags \cap {"noSessionId", "nullSession"} # {}) =>
           \/ x.fwd = "requireAuth" /\ x.resp = <<>>
           \/ /\ x.fwd = "none"
              /\ Len(x.resp) = 1
              /\ x.resp[1].status = 401
      /\ "buildInvoked" \notin x.tags =>
           /\ "recorded" \notin x.tags
           /\ \A i \in 1..Len(x.resp) : x.resp[i].body # "SAMLResponse"

\* getSessionData has just returned null for the id of the request: 401
C6_Witness ==
  /\ finished.route = "sso"
  /\ "nullSession" \in finished.tags
  /\ finished.sid # NoSession
  /\ finished.resp # <<>>
  /\ finished.resp[1].status = 401

C8_SoapAlwaysEnvelope ==
  \A x \in Shown :
    x.route = "soap" =>
      /\ x.fwd = "none"
      /\ Len(x.resp) = IF x.pc = "done" THEN 1 ELSE 0
      /\ \A i \in 1..Len(x.resp) :
           /\ x.resp[i].ctype = "text/xml"
           /\ x.resp[i].status \in {200, 400, 500}
           /\ x.resp[i].body \in {"LogoutResponse", "soap:Client", "soap:Server"}

\* the issuer's SOAP LogoutResponse has just been sent
C8_Witness ==
  /\ finished.route = "soap"
  /\ finished.resp = <<Response(200, "text/xml", "LogoutResponse", NoSP)>>

\* C9 (as stated): a POST /singleLogoutSOAP whose body is empty or missing is
\* answered with the soap:Client fault and status 400, and processSoapLogout
\* is not invoked for it.
C9_EmptyOrMissingBodyFault ==
  \A x \in Shown :
    x.tags \cap {"emptyBody", "missingBody"} # {} =>
      /\ "soapInvoked" \notin x.tags
      /\ x.pc = "done" => x.resp = <<SoapFault(400, "soap:Client")>>

\* C10: when the session-id lookup or processSoapLogout raises, the SOAP
\* endpoint answers 500 with a soap:Server fault and nothing leaves the handler.
C10_SoapServerFault ==
  \A x \in Shown :
    (x.route = "soap" /\ x.tags \cap {"lookupRaised", "soapRaised"} # {}) =>
      /\ x.pc = "done"
      /\ x.fwd = "none"
      /\ x.resp = <<SoapFault(500, "soap:Server")>>

\* processSoapLogout has just raised and the fault has been sent
C10_Witness ==
  /\ finished.route = "soap"
  /\ "soapRaised" \in finished.tags
  /\ finished.resp # <<>>

\* C11 (as stated): on the LogoutResponse branch of /singleLogout the redirect
\* to the portal is issued only when the walk of the session the LogoutResponse
\* belongs to is exhausted: every provider of that walk has been notified.
C11_PortalRedirectOnlyWhenExhausted ==
  \A x \in Shown :
    (x.route = "slo" /\ x.pc = "done" /\ x.target # NoSession
       /\ x.resp = <<Response(302, "", "portal", NoSP)>>) =>
      /\ ~walk[x.target].active \/ isWalkExhausted(walk[x.target])
      /\ \A k \in 1..Len(hist[x.target].expected) :
           \E i \in 1..Len(hist[x.target].results) :
             hist[x.target].results[i] = hist[x.target].expected[k]

\* the router has just answered a LogoutResponse of session s with the redirect
\* to the portal, and every provider of the walk had been notified before
PortalRedirect(s) ==
  /\ finished.route = "slo"
  /\ finished.sid = s
  /\ finished.resp = <<Response(302, "", "portal", NoSP)>>
  /\ \A k \in 1..Len(hist[s].expected) :
       \E i \in 1..Len(hist[s].results) :
         hist[s].results[i] = hist[s].expected[k]

C13_RecordIsUpsert ==
  /\ \A s \in Sessions :
       \A i, j \in 1..Len(providerSessions[s]) :
         i # j => providerSessions[s][i].sp # providerSessions[s][j].sp
  /\ outcome.op = "recordProviderSession" =>
       LET ps == providerSessions[outcome.s] IN
       /\ \E i \in 1..Len(ps) :
            ps[i] = [sp |-> outcome.sp, nameId |-> outcome.nameId]
       /\ Len(ps) = IF outcome.replaced THEN outcome.len ELSE outcome.len + 1

\* the SP recorded first of two has just been recorded again with a NameID it
\* had not been given before
C13_Witness ==
  /\ outcome.op = "recordProviderSession"
  /\ outcome.replaced
  /\ outcome.nameId = FreshNameId
  /\ Len(providerSessions[outcome.s]) = 2
  /\ providerSessions[outcome.s][1].sp = outcome.sp

\* C14: the queue of a walk is the snapshot of the session's ProviderSessions
\* in recording order without the originating SP, which is neither queued nor
\* sent a LogoutRequest during the walk.
C14_WalkExcludesOrigin ==
  \A s \in Sessions :
    walk[s].active =>
      /\ \A i \in 1..Len(walk[s].queue) : walk[s].queue[i].sp # walk[s].origin
      /\ walk[s].origin # NoSP =>
           \A i \in 1..Len(hist[s].results) :
             hist[s].results[i] # walk[s].origin
      /\ hist[s].results = <<>> => SPsOf(walk[s].queue) = hist[s].expected

\* a walk started by an SP that has a ProviderSession in the session has
\* notified another SP
C14_Witness ==
  \E s \in Sessions :
    /\ walk[s].active
    /\ HasProvider(providerSessions[s], walk[s].origin)
    /\ hist[s].results # <<>>
    /\ hist[s].results[1] # NoSP

\* C15: the calls of initiateLogout of a walk return the providers of the
\* snapshot that are in the trust configuration, in order, and then None: a
\* provider that is not configured is passed over and the walk goes on.
C15_UnknownProviderSkipped ==
  \A s \in Sessions :
    LET known == SelectSeq(hist[s].expected, LAMBDA sp : sp \in KnownSPs) IN
    \A i \in 1..Len(hist[s].results) :
      hist[s].results[i] = IF i <= Len(known) THEN known[i] ELSE NoSP

\* a walk with an unconfigured provider queued before a configured one has
\* notified every configured provider and ended
C15_Witness ==
  \E s \in Sessions :
    LET h == hist[s] IN
    /\ Len(h.expected) = NumSPs + 1
    /\ h.expected[Len(h.expected)] \in KnownSPs
    /\ Len(h.results) = NumSPs + 1
    /\ h.results[NumSPs] = h.expected[Len(h.expected)]
    /\ h.results[NumSPs + 1] = NoSP

\* C16: as long as the Server Manager has no active handle, getHandle and
\* getMetadata fail with NotConfigured and GET /metadata is answered with
\* status 500, never with a metadata document.
C16_NotConfigured ==
  handle = NoHandle =>
    /\ getHandle(handle).raised /\ getHandle(handle).error = "NotConfigured"
    /\ outcome.op \in {"getHandle", "getMetadata"} =>
         outcome.raised /\ outcome.error = "NotConfigured"
    /\ finished.route = "metadata" =>
         /\ Len(finished.resp) = 1
         /\ finished.resp[1].status = 500
         /\ finished.resp[1].ctype # "application/samlmetadata+xml"
         /\ finished.resp[1].body # "EntityDescriptor"

\* before any successful configure, getMetadata has failed and GET /metadata
\* has just been answered
C16_Witness ==
  /\ handle = NoHandle
  /\ outcome.op = "getMetadata"
  /\ finished.route = "metadata"
  /\ finished.resp # <<>>

\* the token manager alone, everything else at rest
TokenSpec == Init /\ [][TokenNext]_vars

\* C17: a getToken(id) with keep = false that returns data is the only one for
\* that token: every getToken(id) after it returns null; a getToken(id) with
\* keep = true that returns data leaves the token in the store, and a token
\* that was created and neither consumed, deleted nor expired is returned.
C17_OneTimeToken ==
  tokRet.op = "getToken" =>
    /\ tokRet.status = "consumed" => tokRet.result = Null
    /\ tokRet.status = "live" => tokRet.result # Null
    /\ (tokRet.keep /\ tokRet.result # Null) =>
         /\ tokRet.store = "same"
         /\ tokens[tokRet.id].set
         /\ tokens[tokRet.id].data = tokRet.result
    /\ (~tokRet.keep /\ tokRet.result # Null) =>
         /\ ~tokens[tokRet.id].set
         /\ issued[tokRet.id].life = "consumed"

\* a token that a one-time read has consumed has just been asked for again
C17_Witness ==
  /\ tokRet.op = "getToken"
  /\ tokRet.status = "consumed"
  /\ issued[tokRet.id].due >= now

\* C18: for a token id that was never created, was deleted, or whose timeout
\* has passed, getToken returns null and leaves every other token as it is,
\* and updateToken returns false and leaves the store as it is.
C18_NoTokenNoData ==
  (tokRet.op \in {"getToken", "updateToken"}
     /\ tokRet.status \in {"never", "deleted", "expired"}) =>
    /\ tokRet.op = "getToken" =>
         /\ tokRet.result = Null
         /\ tokRet.store \in {"same", "dropped"}
    /\ tokRet.op = "updateToken" =>
         /\ tokRet.result = FALSE
         /\ tokRet.store = "same"

\* updateToken has just been refused for a token whose timeout has passed and
\* whose entry is still in the store
C18_Witness ==
  /\ tokRet.op = "updateToken"
  /\ tokRet.status = "expired"
  /\ tokens[tokRet.id].set

\* the TwoFactorManager alone, everything else at rest
TwoFactorSpec == Init /\ [][TwoFactorNext]_vars

\* C19 (as stated): getPendingSession(t) returns the stored pending state
\* exactly when t was returned by createPendingSession, has not been deleted
\* and is not older than pendingTimeout seconds; in every other case it
\* returns null.
C19_PendingSessionExactly ==
  sfRet.op = "getPendingSession" => sfRet.result = sfRet.entitled

\* C20 (as stated): is2FARequired(session) is true exactly when _2fDevices
\* denotes a device list that holds a device of the type of a loaded module;
\* for an absent, empty or invalid _2fDevices value it returns false.
C20_RequiredExactlyWhenRegistered ==
  sfRet.op = "is2FARequired" =>
    LET d == sfRet.devices
        registered ==
          /\ d.kind \in {"json", "array"}
          /\ d.value.type = "array"
          /\ \E i \in 1..Len(d.value.items) : d.value.items[i] \in modules
    IN sfRet.result = (IF registered THEN "true" ELSE "false")

\* the PluginManager alone, everything else at rest
PluginSpec == Init /\ [][PluginNext]_vars

\* C21: executeHook calls the plugins of the hook's list in registration
\* order; a plugin is called only if no plugin before it returned a code other
\* than PE_OK or a stop flag; the first such result is what executeHook
\* returns, and otherwise it returns PE_OK after calling the whole list.
C21_HookOrderAndStop ==
  hookRun.pc \in {"running", "done"} =>
    LET calls == hookRun.calls
        last == hookRun.last
        halting == ~last.thrown /\ (last.code # PE_OK \/ last.stop)
    IN /\ Len(calls) <= Len(hookRun.list)
       /\ \A i \in 1..Len(calls) : calls[i] = hookRun.list[i]
       /\ (hookRun.pc = "running" /\ Len(calls) > 1) => ~halting
       /\ (hookRun.pc = "done" /\ calls # <<>> /\ halting) =>
            hookRun.result = last
       /\ (hookRun.pc = "done" /\ (calls = <<>> \/ ~halting)) =>
            /\ hookRun.result = Result(PE_OK, FALSE)
            /\ hookRun.stable => calls = hookRun.list

\* executeHook has returned the PE_OK-with-stop result of the second plugin
\* of a list that holds a third one
C21_Witness ==
  /\ hookRun.pc = "done"
  /\ Len(hookRun.calls) = 2
  /\ Len(hookRun.list) = 3
  /\ hookRun.result = Result(PE_OK, TRUE)

\* C22: after close() every loaded plugin that defines close has had it
\* called, whether or not an earlier close threw; the plugin map and every
\* hook list are empty; an executeHook started afterwards calls no plugin and
\* returns PE_OK.
C22_CloseClearsAll ==
  /\ phase = "closed" =>
       /\ \A p \in Packages : (loaded[p].loaded /\ loaded[p].close) =>
            \E i \in 1..Len(closeLog) : closeLog[i].plugin = p
       /\ plugins = <<>>
       /\ \A h \in Hooks : hookRegistry[h] = <<>>
  /\ (hookRun.pc # "idle" /\ hookRun.closed) =>
       /\ hookRun.pc = "done"
       /\ hookRun.calls = <<>>
       /\ hookRun.result = Result(PE_OK, FALSE)

\* close() went on after the first plugin's close threw, and a hook that had
\* plugins was executed afterwards
C22_Witness ==
  /\ phase = "closed"
  /\ Len(closeLog) >= 2
  /\ closeLog[1].threw
  /\ hookRun.pc = "done"
  /\ hookRun.closed
  /\ \E p \in Packages : hookRun.hook \in loaded[p].hooks

\* C23 (as stated): after init, in every hook list no plugin is registered
\* after the impersonation plugin.
C23_ImpersonationLast ==
  phase = "ready" =>
    \A h \in Hooks : \A i \in 1..Len(hookRegistry[h]) :
      hookRegistry[h][i] = "impersonation" => i = Len(hookRegistry[h])

\* the lasso loader alone, everything else at rest
LassoSpec == Init /\ [][LassoNext]_vars

\* C24 (as stated): a call made after a failed load throws (loadLasso) or
\* returns false (tryLoadLassoSync) without a new import; a call made after a
\* successful load returns the cached module (loadLasso, getLasso) or true
\* (isLassoLoaded, tryLoadLassoSync); getLasso never loads and throws while no
\* module is loaded.
C24_LoadOutcomeCached ==
  lassoRet.op # "none" =>
    LET failed == lassoRet.began.error # "null"
        loadedBefore == lassoRet.began.module # "null"
    IN /\ failed =>
            /\ lassoRet.op = "loadLasso" =>
                 /\ lassoRet.result = "LassoNotAvailableError"
                 /\ ~lassoRet.attempted
            /\ lassoRet.op = "tryLoadLassoSync" =>
                 /\ lassoRet.result = "false"
                 /\ ~lassoRet.attempted
       /\ loadedBefore =>
            /\ lassoRet.op \in {"loadLasso", "getLasso"} =>
                 lassoRet.result = lassoRet.began.module
            /\ lassoRet.op \in {"isLassoLoaded", "tryLoadLassoSync"} =>
                 lassoRet.result = "true"
            /\ lassoModule = lassoRet.began.module
       /\ lassoRet.op = "getLasso" =>
            /\ ~lassoRet.attempted
            /\ ~loadedBefore => lassoRet.result = "LassoNotAvailableError"

\* the device registry alone, everything else at rest
DeviceSpec == Init /\ [][DeviceNext]_vars

\* C25: removeDevice returns true exactly when a stored device has the type
\* and the epoch asked for; the devices with both are then gone and all others
\* are kept in their order; when it returns false _2fDevices is as it was.
C25_RemoveDeviceFrame ==
  devRet.op = "removeDevice" =>
    LET stored == getDevices(devRet.before)
        hit(d) == d.type = devRet.type /\ d.epoch = devRet.epoch
        kept == {i \in 1..Len(stored) : ~hit(stored[i])}
        now2f == getDevices(session2f)
    IN /\ devRet.result = (\E i \in 1..Len(stored) : hit(stored[i]))
       /\ devRet.result =>
            /\ session2f.kind = "array"
            /\ Len(now2f) = Cardinality(kept)
            /\ \A i \in 1..Len(now2f) : ~hit(now2f[i])
            /\ \A i \in kept :
                 now2f[Cardinality({j \in kept : j <= i})] = stored[i]
       /\ ~devRet.result => session2f = devRet.before

\* the first of two devices of one type was removed and the second kept
C25_Witness ==
  /\ devRet.op = "removeDevice"
  /\ devRet.result
  /\ Len(getDevices(devRet.before)) = 2
  /\ Len(getDevices(session2f)) = 1
  /\ getDevices(session2f)[1] = getDevices(devRet.before)[2]
  /\ getDevices(session2f)[1].type = devRet.type

\* base32 alone, everything else at rest
Base32Spec == Init /\ [][Base32Next]_vars

\* C26: base32Decode(base32Encode(b)) is b, without error, for every byte
\* sequence b, also when the encoder's 32-bit accumulator has lost bits.
C26_Base32RoundTrip ==
  decoded.done =>
    /\ decoded.error = "none"
    /\ decoded.bytes = buffer

\* a buffer whose encoding shifted set bits out of the accumulator has been
\* decoded
C26_Witness ==
  /\ decoded.done
  /\ Len(buffer) = MaxBytes
  /\ EncodeRun(buffer).wrapped
  /\ buffer[MaxBytes] = 165

\* the second-factor routes of the portal, everything else at rest
PortalSpec == Init /\ [][PortalNext]_vars

\* the requests a state shows: those in flight and the one answered last
ShownRequests == {req[r] : r \in Requests} \cup {answered}

\* C27: POST /2fa/:type creates a session and sets the session cookie only for
\* a token that named a live pending session when it was looked up and after
\* verify returned success for that request; when verify fails, the request
\* creates no session, sets no cookie and leaves the pending store as it was
C27_SessionOnlyAfterVerify ==
  /\ [](\A x \in ShownRequests :
         /\ x.route = "post2fa" /\ (x.pc = "createSession" \/ x.created \/ x.cookie)
              => x.live /\ x.verified = "success"
         /\ x.verified = "failure" => ~x.created /\ ~x.cookie)
  /\ [][\A r \in Requests :
          req[r].pc = "verify" /\ req'[r].pc = "done"
            /\ answered'.verified = "failure"
            => /\ pendingStore' = pendingStore
               /\ sessionsOf' = sessionsOf
               /\ ~answered'.created /\ ~answered'.cookie]_vars

C27_Witness ==
  /\ answered.route = "post2fa"
  /\ answered.created /\ answered.cookie
  /\ answered.live /\ answered.verified = "success"
  /\ answered.token \in LoginTokens
  /\ pendingStore[answered.token] = NoPending

\* C28: when the portal has second-factor modules and is2FARequired returns
\* true for the user who has just passed the first factor, POST / creates no
\* session and sets no session cookie: it is answered with a redirect to /2fa
\* that carries the token of a pending session it has created
C28_LoginDefersToSecondFactor ==
  \A x \in ShownRequests :
    x.route = "login" /\ x.required = "true"
      => /\ x.pc = "done"
         /\ ~x.created /\ ~x.cookie
         /\ x.status = "redirect /2fa"
         /\ x.location \in LoginTokens
         /\ made[x.location].life # "never"
         /\ pendingInfo[x.location].set

C28_Witness ==
  /\ answered.route = "login"
  /\ answered.required = "true"
  /\ answered.status = "redirect /2fa"
  /\ answered.location \in LoginTokens
  /\ pendingStore[answered.location] = Entitled(answered.location)
  /\ pendingStore[answered.location] # NullPending

\* C29: one pending token yields at most one session, also when the requests
\* that carry it are handled while another one awaits verify
C29_OneSessionPerToken ==
  \A t \in DOMAIN sessionsOf : sessionsOf[t] <= 1

\* C30: GET and POST /2fa/:type run a module only if its prefix is listed in
\* the availableModules of the pending session that the token yielded
C30_RunsOnlyListedModule ==
  \A x \in ShownRequests : x.ran # "none" => x.listed

\* the TOTP verification module, everything else at rest
TotpSpec == Init /\ [][TotpNext]_vars

\* a device of the type TOTP that was older than a ttl > 0 at the last verify
Expired(d) ==
  d.type = "TOTP" /\ totpTtl > 0 /\ totpRet.at - d.epoch > totpTtl

\* C31: TOTP2F.verify returns success only for a code that verifies against
\* the secret of a TOTP device of the session that is not older than a
\* configured ttl > 0, and when it checks a code under a ttl > 0 the devices
\* older than the ttl are gone from the list, the others being kept in order
C31_VerifyOnlyFreshDevice ==
  totpRet.op = "verify" =>
    LET before == parseDevices(totpRet.before)
        after == parseDevices(totpSession)
    IN /\ totpRet.success =>
            /\ totpRet.code # "none"
            /\ \E i \in 1..Len(before) :
                 /\ before[i] = totpRet.device
                 /\ before[i].type = "TOTP"
                 /\ before[i].secret = totpRet.code
                 /\ ~Expired(before[i])
       /\ totpRet.code # "none" =>
            /\ after = SelectSeq(before, LAMBDA d : ~Expired(d))
            /\ \A i \in 1..Len(after) : ~Expired(after[i])

C31_Witness ==
  /\ totpRet.op = "verify"
  /\ totpRet.success
  /\ totpTtl > 0
  /\ \E i \in 1..Len(totpRet.before.items) :
       /\ Expired(totpRet.before.items[i])
       /\ totpRet.before.items[i].secret = totpRet.code
  /\ Len(totpSession.items) < Len(totpRet.before.items)

\* TOTP registration with its token manager, everything else at rest
RegisterSpec == Init /\ [][RegisterNext]_vars

\* the token id can still be redeemed: it is stored and has not expired
Usable(id) == tokens[id].set /\ tokens[id].expires >= now

\* what a step of the registration may do to the session and to the tokens
RegistrationStep ==
  /\ regRet.op # "none" /\ regSession' # regSession
       => \E c \in Requests :
            /\ regCall[c].pc = "deleteToken" /\ regCall'[c].pc = "idle"
            /\ regRet'.success
            /\ regCall[c].code = regCall[c].tokenData
  /\ \A c \in Requests :
       regCall[c].pc = "idle" /\ regCall'[c].pc = "getToken"
         /\ regCall'[c].tokenData # Null
         => /\ Usable(regCall'[c].token)
            /\ regCall'[c].tokenData = tokens[regCall'[c].token].data
  /\ /\ regRet'.op = "verifyRegistration"
     /\ \/ regRet' # regRet
        \/ \E c \in Requests :
             regCall[c].pc = "getToken" /\ regCall'[c].pc = "idle"
     /\ ~\E c \in Requests :
           regCall[c].pc = "deleteToken" /\ regCall'[c].pc = "idle"
     => /\ ~regRet'.success
        /\ tokens' = tokens
        /\ regSession' = regSession
  /\ \A id \in TokenIds :
       Usable(id) /\ now' = now /\ ~tokens'[id].set
         => \E c \in Requests :
              /\ regCall[c].pc = "getToken"
              /\ regCall[c].token = id
              /\ regCall[c].code = regCall[c].tokenData
              /\ regCall'[c].pc = "deleteToken"

\* C32: verifyRegistration succeeds only for a code that is present and that
\* verifies against the secret of a token that was stored and unexpired; a
\* call that fails changes neither session._2fDevices nor the tokens when it
\* returns, so the token stays usable after an invalid code; and a usable
\* token is deleted only by a call that has verified its code
C32_RegistrationFailsClean ==
  /\ [](regRet.op = "verifyRegistration" /\ regRet.success
          => /\ regRet.code # NoCode
             /\ regRet.tokenData # Null
             /\ regRet.code = regRet.tokenData)
  /\ [][RegistrationStep]_vars

C32_Witness ==
  /\ regRet.op = "verifyRegistration"
  /\ regRet.error = "Invalid TOTP code"
  /\ Usable(regRet.token)
  /\ tokens[regRet.token].data = regRet.tokenData
  /\ regSession \in RegSessions

\* the CDA plugin, everything else at rest
CdaSpec == Init /\ [][CdaNext]_vars


\* the last call of changeUrldc reached the choice of the cookie with
\* securedCookie >= 2 and a target URL that is not HTTPS: the request has a
\* session id and the URL is an external http URL
DoubleCookieOverHttp ==
  /\ cdaRet.op = "changeUrldc"
  /\ cdaConf.securedCookie >= 2
  /\ cdaRet.urldc.scheme = "http"
  /\ cdaRet.sessionId # ""
  /\ urlIsExternal(cdaConf, cdaRet.urldc)

\* C33: with securedCookie >= 2 and a target URL that is not HTTPS,
\* changeUrldc never stores the main session id in the CDA session: what it
\* hands to the session accessor is _httpSession under the cookie name with
\* suffix "http", and when _httpSession is absent it returns PE_ERROR, hands
\* nothing to the accessor and leaves the redirect URL as it was
C33_DoubleCookieNeverLeaksMainId ==
  DoubleCookieOverHttp
  => /\ cdaRet.infos.cookie_value # cdaRet.sessionId
     /\ \A x \in cdaStore :
          x.id = cdaRet.infos.id => x.cookie_value # cdaRet.sessionId
     /\ cdaRet.httpSession # ""
          => /\ cdaRet.infos.cookie_value = cdaRet.httpSession
             /\ cdaRet.infos.cookie_name = cdaConf.cookieName \o "http"
     /\ cdaRet.httpSession = ""
          => /\ cdaRet.code = PE_ERROR
             /\ cdaRet.infos = NoCdaInfos
             /\ ~cdaRet.stored
             /\ cdaRet.llngUrldc = cdaRet.before

\* a CDA session holding _httpSession under "lemonldaphttp" has been stored
\* for an external http URL under securedCookie >= 2
C33_Witness ==
  /\ DoubleCookieOverHttp
  /\ cdaRet.sessionId = "main"
  /\ cdaRet.stored
  /\ cdaRet.infos \in cdaStore
  /\ cdaRet.infos.cookie_value = "httpsession"
  /\ cdaRet.infos.cookie_name = "lemonldaphttp"


\* sessionAcc.update was reached by the last call and did not store
StoreFailed ==
  /\ cdaRet.infos # NoCdaInfos
  /\ ~cdaRet.stored

\* C34: changeUrldc appends a CDA token to req.llngUrldc only if a CDA
\* session with that id was stored through the session accessor; when there
\* is no session, the URL is not external or not trusted, or storing the CDA
\* session fails, llngUrldc is left unchanged and the hook returns PE_OK
C34_TokenOnlyForStoredSession ==
  cdaRet.op = "changeUrldc"
  => /\ cdaRet.llngUrldc.cda # NoCda
          => /\ cdaRet.stored
             /\ cdaRet.infos.id = cdaRet.llngUrldc.cda
     /\ \/ cdaRet.sessionId = ""
        \/ ~urlIsExternal(cdaConf, cdaRet.urldc)
        \/ ~isTrustedUrl(cdaRet.urldc)
        \/ StoreFailed
        => /\ cdaRet.llngUrldc = cdaRet.before
           /\ cdaRet.code = PE_OK

====
